---- MODULE Spec2Model ----
(***************************************************************************)
(* Model of the operation-log code generator (optimus/api/code.py) and of  *)
(* the action log with its stat-cache invalidation (optimus/meta.py,       *)
(* optimus/engines/base/columns.py).                                       *)
(*                                                                         *)
(* A name (a Python str) is a sequence of one-character strings, so that   *)
(* the regular expression and the int()/str() conversions of the variable  *)
(* allocator are computed and not assumed.                                 *)
(***************************************************************************)
EXTENDS Integers, Sequences, FiniteSets, TLC

VARIABLES
    \* _create_new_variable, one loop iteration per step
    a_pc, a_base, a_names, a_cand,
    \* generate_code: the batch, the caller's namespace, the live registry,
    \* the loop position, the two lists it builds and what it returns
    g_pc, g_body, g_variables, g_registry, g_i, g_updated, g_code, g_alloc, g_ret,
    \* _generate_code on one record: the record, the names given, the live
    \* registry and what it returned
    e_pc, e_body, e_variables, e_registry, e_out,
    \* a stale-column query, a marking and a second query on one action log:
    \* the log, the log before the marking, the arguments, the two results
    \* and whether the meta has no "transformations.actions" at all
    s_pc, s_log, s_prev, s_stats, s_cols, s_before, s_after, s_absent,
    \* a dataframe and its meta: the meta objects, the one self.root.meta
    \* refers to, the one it referred to before the last call, the number of
    \* logged changes of each column's data, the calls made, the last call
    \* and what quality returned
    heap, root_meta, held, ver, clock, op, result,
    \* optimus/meta.py: the list objects, the list under
    \* "transformations.actions" of the dataframe, the names bound to
    \* dataframes, and of the last call: its kind, the names it used, the log
    \* it was given, that log's entries then, the log it returned and the
    \* action name and value it was called with
    m_lists, m_actions, m_handle, m_op, m_who, m_to, m_in, m_in_val, m_out, m_count,
    m_arg,
    \* dataframe objects and the transformations called on them: the meta of
    \* each object, the number of objects, and of the last call: the receiver,
    \* the object returned, the receiver's meta before the call and the name
    d_meta, d_n, d_recv, d_ret, d_pre, d_call, d_count,
    \* the pattern counts of one column kept in the meta: the column's
    \* "modified" time, the cached "patterns", the clock, the number of
    \* distinct patterns of the data, and the last call of
    \* calculate_pattern_counts or pattern_counts
    p_modified, p_patterns, p_now, p_distinct, p_call, p_count

allocVars == <<a_pc, a_base, a_names, a_cand>>

genVars == <<g_pc, g_body, g_variables, g_registry, g_i, g_updated, g_code, g_alloc,
            g_ret>>

emitVars == <<e_pc, e_body, e_variables, e_registry, e_out>>

statVars == <<s_pc, s_log, s_prev, s_stats, s_cols, s_before, s_after, s_absent>>

vars == <<a_pc, a_base, a_names, a_cand,
          g_pc, g_body, g_variables, g_registry, g_i, g_updated, g_code, g_alloc, g_ret,
          e_pc, e_body, e_variables, e_registry, e_out,
          s_pc, s_log, s_prev, s_stats, s_cols, s_before, s_after, s_absent,
          heap, root_meta, held, ver, clock, op, result,
          m_lists, m_actions, m_handle, m_op, m_who, m_to, m_in, m_in_val, m_out, m_count,
          m_arg,
          d_meta, d_n, d_recv, d_ret, d_pre, d_call, d_count,
          p_modified, p_patterns, p_now, p_distinct, p_call, p_count>>

metaVars == <<m_lists, m_actions, m_handle, m_op, m_who, m_to, m_in, m_in_val, m_out, m_count,
             m_arg>>

dfVars == <<heap, root_meta, held, ver, clock, op, result>>

chainVars == <<d_meta, d_n, d_recv, d_ret, d_pre, d_call, d_count>>

patVars == <<p_modified, p_patterns, p_now, p_distinct, p_call, p_count>>

----------------------------------------------------------------------------
(* Bounds *)

\* largest number of names in an external namespace / live registry
MaxNs == 3

\* largest number of operation records in a batch
MaxBatch == 2

\* largest number of argument keys of a record given to _generate_code
MaxArgs == 2

\* largest number of entries of an action log given to a query
MaxLog == 2

\* largest number of calls made on the dataframe
MaxOps == 4

\* largest number of calls of the Meta object of optimus/meta.py
MaxMetaCalls == 3

----------------------------------------------------------------------------
(* Strings *)

DigitChars == <<"0", "1", "2", "3", "4", "5", "6", "7", "8", "9">>

IsDigit(ch) == \E i \in 1..10 : DigitChars[i] = ch

\* int(s) of a decimal string s
RECURSIVE StrToInt(_)
StrToInt(s) ==
    IF Len(s) = 0 THEN 0
    ELSE StrToInt(SubSeq(s, 1, Len(s) - 1)) * 10
             + (CHOOSE i \in 1..10 : DigitChars[i] = s[Len(s)]) - 1

\* str(n) of a natural number n
RECURSIVE IntToStr(_)
IntToStr(n) ==
    IF n < 10 THEN <<DigitChars[n + 1]>>
    ELSE IntToStr(n \div 10) \o <<DigitChars[(n % 10) + 1]>>

\* re.search(r'\d+$', s): the 1-based start of the leftmost run of digits
\* that reaches the end of s, 0 when there is no match
MatchStart(s) ==
    LET starts == {i \in 1..Len(s) : \A j \in i..Len(s) : IsDigit(s[j])}
    IN  IF starts = {} THEN 0
        ELSE CHOOSE i \in starts : \A k \in starts : i <= k

----------------------------------------------------------------------------
(* Variable allocator, api/code.py *)

\* a slip of _increment_variable_name: the suffix is kept as it is
IncrementKeepsSuffix(variable_name) ==
    LET m == MatchStart(variable_name)
    IN  IF m > 0
        THEN SubSeq(variable_name, 1, m - 1)
                 \o IntToStr(StrToInt(SubSeq(variable_name, m, Len(variable_name))))
        ELSE variable_name \o <<"2">>

\* a slip of _increment_variable_name: "2" is appended whether or not the
\* name ends in digits
IncrementAlwaysAppends(variable_name) == variable_name \o <<"2">>

_increment_variable_name(variable_name) ==
    LET m == MatchStart(variable_name)
    IN  IF m > 0
        THEN SubSeq(variable_name, 1, m - 1)
                 \o IntToStr(StrToInt(SubSeq(variable_name, m, Len(variable_name))) + 1)
        ELSE variable_name \o <<"2">>

\* _create_new_variable as a function of its arguments (names as a set:
\* the list is only tested for membership)
RECURSIVE _create_new_variable(_, _)
_create_new_variable(base_name, names) ==
    IF base_name \in names
    THEN _create_new_variable(_increment_variable_name(base_name), names)
    ELSE base_name

\* available_variable(name, variables) with the live registry
\* optimus_variables() passed as registry
available_variable(name, variables, registry) ==
    _create_new_variable(name, variables \cup registry)

----------------------------------------------------------------------------
(* Inputs of the allocator *)

S_df   == <<"d", "f">>
S_df2  == <<"d", "f", "2">>
S_df3  == <<"d", "f", "3">>
S_df9  == <<"d", "f", "9">>
S_x9   == <<"x", "9">>
S_x10  == <<"x", "1", "0">>

\* the namespaces: at most MaxNs of these names
Namespaces ==
    {ns \in SUBSET {S_df, S_df2, S_df3, S_df9, <<"d", "f", "1", "0">>,
                    <<"d", "f", "0", "9">>, S_x9, S_x10, <<"9">>, <<"1", "0">>} :
        Cardinality(ns) <= MaxNs}

----------------------------------------------------------------------------
(* _create_new_variable step by step: one action per evaluation of the     *)
(* while condition                                                         *)

AllocInit ==
    /\ a_pc = "while"
    /\ a_base \in {S_df, S_df2, S_x9, S_df9, <<"d", "f", "0", "9">>, <<"9">>}
    /\ a_names \in Namespaces
    /\ a_cand = a_base

\* code.py:17-18, the condition holds: the body runs
AllocLoop ==
    /\ a_pc = "while"
    /\ a_cand \in a_names
    /\ a_cand' = _increment_variable_name(a_cand)
    /\ UNCHANGED <<a_pc, a_base, a_names>>

\* code.py:17,20, the condition fails: return base_name
AllocReturn ==
    /\ a_pc = "while"
    /\ a_cand \notin a_names
    /\ a_pc' = "done"
    /\ UNCHANGED <<a_base, a_names, a_cand>>

AllocNext == AllocLoop \/ AllocReturn

AllocIdle ==
    /\ a_pc = "idle"
    /\ a_base = <<>>
    /\ a_names = {}
    /\ a_cand = <<>>

----------------------------------------------------------------------------
(* Code generator, api/code.py *)

\* an absent key of a record (body.get(key) is None)
NoName == <<>>

S_result   == <<"r", "e", "s", "u", "l", "t">>
S_clusters == <<"c", "l", "u", "s", "t", "e", "r", "s">>
S_conn     == <<"c", "o", "n", "n">>
S_op       == <<"o", "p">>

engine_accessors == {"create"}

dataframe_accessors == {"cols", "rows"}

accessors == engine_accessors \cup dataframe_accessors

_get_method_root_type(accessor) ==
    IF accessor \in engine_accessors THEN "engine"
    ELSE IF accessor \in dataframe_accessors THEN "dataframe"
    ELSE "None"

\* the class an accessor names
AccessorClass(accessor) ==
    CASE accessor = "create" -> "create_class"
      [] accessor = "cols" -> "cols_class"
      [] accessor = "rows" -> "rows_class"

\* the values of optimus.helpers.types that _get_generator compares a return
\* annotation with; an annotation written 'DataFrameType' (columns.py) or
\* DataFrameType (rows.py) is tagged "produces a new dataframe" either way
DataFrameType == "DataFrameType"

ConnectionType == "ConnectionType"

ClustersType == "ClustersType"

\* what getattr(cls, item) finds when the class has no such attribute
Missing == [returns |-> "missing", arguments |-> <<>>]

\* signature(getattr(cols_class, item)): the return annotation ("empty" for
\* inspect._empty) and the parameter names in declared order, self left out
cols_class(item) ==
    CASE item = "upper" ->
            [returns |-> "DataFrameType", arguments |-> <<"cols", "output_cols">>]
      [] item = "lower" ->
            [returns |-> "DataFrameType", arguments |-> <<"cols", "output_cols">>]
      [] item = "names" ->
            [returns |-> "list",
             arguments |-> <<"col_names", "by_data_types", "invert", "is_regex">>]
      [] item = "set" ->
            [returns |-> "empty",
             arguments |-> <<"cols", "value", "where", "args", "default", "eval_value">>]
      [] item = "count" ->
            [returns |-> "int", arguments |-> <<>>]
      [] item = "apply" ->
            [returns |-> "DataFrameType",
             arguments |-> <<"cols", "func", "func_return_type", "args", "func_type",
                             "where", "filter_col_by_data_types", "output_cols",
                             "skip_output_cols_processing", "meta_action", "mode",
                             "set_index", "default", "kwargs">>]
      [] OTHER -> Missing

\* signature(getattr(rows_class, item))
rows_class(item) ==
    CASE item = "count" -> [returns |-> "int", arguments |-> <<"compute">>]
      [] item = "select" ->
            [returns |-> "DataFrameType",
             arguments |-> <<"expr", "contains", "case", "flags", "na", "regex">>]
      [] OTHER -> Missing

\* operations of the classes Create, BaseDataFrame and BaseEngine and the
\* constructor of an engine: one of each return category, and one name,
\* compute, that BaseDataFrame and BaseEngine both define
OtherClasses(cls, item) ==
    CASE cls = "create_class" /\ item = "dataframe" ->
            [returns |-> "DataFrameType", arguments |-> <<"dict", "cols", "rows">>]
      [] cls = "create_class" /\ item = "sample" ->
            [returns |-> "dict", arguments |-> <<"rows">>]
      [] cls = "dataframe_class" /\ item = "string_clustering" ->
            [returns |-> "ClustersType", arguments |-> <<"cols", "algorithm", "kwargs">>]
      [] cls = "engine_class" /\ item = "connect" ->
            [returns |-> "ConnectionType", arguments |-> <<"driver">>]
      [] cls = "dataframe_class" /\ item = "compute" ->
            [returns |-> "dict", arguments |-> <<"cols">>]
      [] cls = "engine_class" /\ item = "compute" ->
            [returns |-> "ConnectionType", arguments |-> <<"value">>]
      [] cls = "PandasEngine" /\ item = "__init__" ->
            [returns |-> "empty", arguments |-> <<"verbose", "comm", "kwargs">>]
      [] OTHER -> Missing

\* getattr(cls, item) and its signature
Catalog(cls, item) ==
    CASE cls = "cols_class" -> cols_class(item)
      [] cls = "rows_class" -> rows_class(item)
      [] OTHER -> OtherClasses(cls, item)

\* getattr(cls, item): the declared return annotation of the method found,
\* "missing" when the class has no such attribute
ClassAttr(cls, item) == Catalog(cls, item).returns

Range(s) == {s[i] : i \in 1..Len(s)}

\* An operation record (a dict) is a record
\*   [operation, source, target, creates_new, engine, keys, args]
\* operation is the dotted path split at the dots; source, target and engine
\* are NoName when the dict has no such key; creates_new tells whether
\* "operation_options" is there with creates_new true; keys lists the keys of
\* the dict in its own order and args gives the values of the other keys.

\* ", ".join(texts)
RECURSIVE Join(_)
Join(texts) ==
    IF Len(texts) = 0 THEN <<>>
    ELSE IF Len(texts) = 1 THEN texts[1]
    ELSE texts[1] \o <<",", " ">> \o Join(Tail(texts))

\* pformat(value) of a value that fits on one line
RECURSIVE pformat(_)
pformat(value) ==
    CASE value.type = "str" -> <<"'">> \o value.v \o <<"'">>
      [] value.type = "int" -> IntToStr(value.v)
      [] value.type = "bool" ->
            IF value.v THEN <<"T", "r", "u", "e">> ELSE <<"F", "a", "l", "s", "e">>
      [] value.type = "list" ->
            <<"[">> \o Join([i \in 1..Len(value.v) |-> pformat(value.v[i])]) \o <<"]">>

\* args[arg] of the dict
BodyValue(body, key) ==
    CASE key = "source" -> [type |-> "str", v |-> body.source]
      [] key = "target" -> [type |-> "str", v |-> body.target]
      [] key = "engine" -> [type |-> "str", v |-> body.engine]
      [] OTHER -> body.args[key]

\* a slip of _arguments: the keys of the dict are emitted whatever the
\* parameters of the method are
ArgumentsAllKeys(args, args_properties) ==
    LET args_list ==
            SelectSeq(args.keys, LAMBDA key :
                key \notin {"source", "target", "operation", "operation_options"})
    IN  [i \in 1..Len(args_list) |->
            [name |-> args_list[i], text |-> pformat(BodyValue(args, args_list[i]))]]

\* a slip of _arguments: "source" is not taken off the keys
ArgumentsKeepSource(args, args_properties) ==
    LET args_list ==
            IF Len(args_properties) = 0 \/ "kwargs" \in Range(args_properties)
            THEN SelectSeq(args.keys, LAMBDA key :
                     key \notin {"target", "operation", "operation_options"})
            ELSE args_properties
        emitted == SelectSeq(args_list, LAMBDA arg : arg \in Range(args.keys))
    IN  [i \in 1..Len(emitted) |->
            [name |-> emitted[i], text |-> pformat(BodyValue(args, emitted[i]))]]

\* _arguments: the emitted arguments in order, each as its name and the text
\* of its value (joined by ", " as name=text in the statement)
_arguments(args, args_properties) ==
    LET args_list ==
            IF Len(args_properties) = 0 \/ "kwargs" \in Range(args_properties)
            THEN SelectSeq(args.keys, LAMBDA key :
                     key \notin {"source", "target", "operation", "operation_options"})
            ELSE args_properties
        emitted == SelectSeq(args_list, LAMBDA arg : arg \in Range(args.keys))
    IN  [i \in 1..Len(emitted) |->
            [name |-> emitted[i], text |-> pformat(BodyValue(args, emitted[i]))]]

\* ".".join of the segments of an operation path: body["operation"] as it
\* was before the split
RECURSIVE Dotted(_)
Dotted(operation) ==
    IF Len(operation) = 0 THEN <<>>
    ELSE IF Len(operation) = 1 THEN <<operation[1]>>
    ELSE <<operation[1], ".">> \o Dotted(Tail(operation))

\* the text of a statement: the characters of the names and values, the
\* keys and path segments each as one word
StatementText(target, receiver, operation, arguments) ==
    target \o <<" ", "=", " ">>
        \o (IF receiver # NoName THEN receiver \o <<".">> ELSE <<>>)
        \o operation
        \o <<"(">>
        \o Join([i \in 1..Len(arguments) |->
                    <<arguments[i].name, "=">> \o arguments[i].text])
        \o <<")">>

\* a slip of _generate_code_target: the receiver is never written
GenerateCodeTargetNoReceiver(body, properties, target) ==
    LET arguments == _arguments(body, properties.arguments)
    IN  [code |-> [target |-> target,
                   receiver |-> NoName,
                   operation |-> body.operation,
                   arguments |-> arguments,
                   text |-> StatementText(target, NoName, Dotted(body.operation),
                                          arguments)],
         target |-> target,
         error |-> FALSE]

\* a slip of _generate_code_target: the last segment of the path is written
\* in place of the path
GenerateCodeTargetLastSegment(body, properties, target) ==
    LET arguments == _arguments(body, properties.arguments)
        last == <<body.operation[Len(body.operation)]>>
    IN  [code |-> [target |-> target,
                   receiver |-> body.source,
                   operation |-> last,
                   arguments |-> arguments,
                   text |-> StatementText(target, body.source, last, arguments)],
         target |-> target,
         error |-> FALSE]

\* _generate_code_target: the statement
\*   <target> = [<receiver>.]<operation>(<arguments>)
\* as its text and its parts, and the target; receiver is NoName when no
\* prefix is written
_generate_code_target(body, properties, target) ==
    LET arguments == _arguments(body, properties.arguments)
    IN  [code |-> [target |-> target,
                   receiver |-> body.source,
                   operation |-> body.operation,
                   arguments |-> arguments,
                   text |-> StatementText(target, body.source, Dotted(body.operation),
                                          arguments)],
         target |-> target,
         error |-> FALSE]

Failure == [code |-> NoName, target |-> NoName, error |-> TRUE, allocated |-> FALSE]

\* the result of a generator, with a note of whether the target came from
\* the allocator
WithAlloc(r, allocated) == r @@ [allocated |-> allocated]

\* a slip of _generate_code_dataframe_transformation: an explicit target is
\* not looked at
TransformationIgnoresTarget(body, properties, variables, registry) ==
    IF body.source = NoName THEN Failure
    ELSE IF body.creates_new
    THEN WithAlloc(_generate_code_target(body, properties,
                      available_variable(S_df, variables, registry)), TRUE)
    ELSE WithAlloc(_generate_code_target(body, properties, body.source), FALSE)

\* body["source"] raises KeyError when neither target nor source is given
_generate_code_dataframe_transformation(body, properties, variables, registry) ==
    IF body.target = NoName /\ body.source = NoName THEN Failure
    ELSE IF body.creates_new
    THEN WithAlloc(_generate_code_target(body, properties,
                      available_variable(S_df, variables, registry)), TRUE)
    ELSE WithAlloc(_generate_code_target(body, properties,
                      IF body.target # NoName THEN body.target ELSE body.source), FALSE)

\* the four generators of the shape body.get("target", available_variable(base, variables))
GenerateWithBase(body, properties, base, variables, registry) ==
    IF body.target # NoName
    THEN WithAlloc(_generate_code_target(body, properties, body.target), FALSE)
    ELSE WithAlloc(_generate_code_target(body, properties,
                      available_variable(base, variables, registry)), TRUE)

_generate_code_dataframe_clusters(body, properties, variables, registry) ==
    GenerateWithBase(body, properties, S_clusters, variables, registry)

_generate_code_output(body, properties, variables, registry) ==
    WithAlloc(_generate_code_target(body, properties,
                 IF body.target # NoName THEN body.target ELSE S_result), FALSE)

_generate_code_engine_dataframe(body, properties, variables, registry) ==
    GenerateWithBase(body, properties, S_df, variables, registry)

_generate_code_engine_connection(body, properties, variables, registry) ==
    GenerateWithBase(body, properties, S_conn, variables, registry)

_generate_code_engine(body, properties, variables, registry) ==
    GenerateWithBase(body, properties, S_op, variables, registry)

\* a slip of _get_generator: the test for ClustersType is left out
GetGeneratorWithoutClusters(return_annotation, method_root_type) ==
    CASE method_root_type = "dataframe" ->
            IF return_annotation = DataFrameType THEN "dataframe_transformation"
            ELSE "output"
      [] method_root_type = "engine" ->
            IF return_annotation = DataFrameType THEN "engine_dataframe"
            ELSE IF return_annotation = ConnectionType THEN "engine_connection"
            ELSE "output"
      [] method_root_type = "optimus" -> "engine"
      [] OTHER -> "None"

\* the name of the generator _get_generator selects
_get_generator(return_annotation, method_root_type) ==
    CASE method_root_type = "dataframe" ->
            IF return_annotation = DataFrameType THEN "dataframe_transformation"
            ELSE IF return_annotation = ClustersType THEN "dataframe_clusters"
            ELSE "output"
      [] method_root_type = "engine" ->
            IF return_annotation = DataFrameType THEN "engine_dataframe"
            ELSE IF return_annotation = ConnectionType THEN "engine_connection"
            ELSE "output"
      [] method_root_type = "optimus" -> "engine"
      [] OTHER -> "None"

\* method_properties of the method found
method_properties(func, method_root_type) ==
    [arguments |-> func.arguments,
     returns |-> func.returns,
     generator |-> _get_generator(func.returns, method_root_type)]

S_pandas == <<"p", "a", "n", "d", "a", "s">>

S_numpy == <<"n", "u", "m", "p", "y">>

\* _init_methods: the class of the engine named, "" for any other name
_init_methods(engine) == IF engine = S_pandas THEN "PandasEngine" ELSE ""

\* lines 200-205 in the other order: engine_class is asked before
\* dataframe_class
ResolveHeadEngineFirst(body) ==
    LET operation == body.operation
        head == operation[1]
    IN  IF head = "Optimus"
        THEN [cls |-> IF body.engine = NoName THEN "KeyError"
                      ELSE _init_methods(body.engine),
              root |-> "optimus", chain |-> <<>>]
        ELSE IF head \in accessors
        THEN [cls |-> AccessorClass(head), root |-> _get_method_root_type(head),
              chain |-> Tail(operation)]
        ELSE IF ClassAttr("engine_class", head) # "missing"
        THEN [cls |-> "engine_class", root |-> "engine", chain |-> operation]
        ELSE IF ClassAttr("dataframe_class", head) # "missing"
        THEN [cls |-> "dataframe_class", root |-> "dataframe", chain |-> operation]
        ELSE [cls |-> "None", root |-> "None", chain |-> operation]

\* the head of the operation path decides the class, the root type and the
\* chain of attributes still to walk; body["engine"] raises KeyError when
\* the key is not there
ResolveHead(body) ==
    LET operation == body.operation
        head == operation[1]
    IN  IF head = "Optimus"
        THEN [cls |-> IF body.engine = NoName THEN "KeyError"
                      ELSE _init_methods(body.engine),
              root |-> "optimus", chain |-> <<>>]
        ELSE IF head \in accessors
        THEN [cls |-> AccessorClass(head), root |-> _get_method_root_type(head),
              chain |-> Tail(operation)]
        ELSE IF ClassAttr("dataframe_class", head) # "missing"
        THEN [cls |-> "dataframe_class", root |-> "dataframe", chain |-> operation]
        ELSE IF ClassAttr("engine_class", head) # "missing"
        THEN [cls |-> "engine_class", root |-> "engine", chain |-> operation]
        ELSE [cls |-> "None", root |-> "None", chain |-> operation]

\* for item in operation: method = getattr(method, item), then
\* signature(method): the method reached, Missing when a getattr raises or
\* what is reached has no signature (None, "")
WalkChain(cls, chain) ==
    IF Len(chain) = 0
    THEN (IF cls = "PandasEngine" THEN Catalog(cls, "__init__") ELSE Missing)
    ELSE IF Len(chain) = 1 THEN Catalog(cls, chain[1])
    ELSE Missing

_generate_code(body, variables, registry) ==
    LET h == ResolveHead(body)
        func == WalkChain(h.cls, h.chain)
        properties == method_properties(func, h.root)
        generator == properties.generator
    IN  IF func.returns = "missing" THEN Failure
        ELSE CASE generator = "dataframe_transformation" ->
                     _generate_code_dataframe_transformation(body, properties, variables, registry)
               [] generator = "dataframe_clusters" ->
                     _generate_code_dataframe_clusters(body, properties, variables, registry)
               [] generator = "output" ->
                     _generate_code_output(body, properties, variables, registry)
               [] generator = "engine_dataframe" ->
                     _generate_code_engine_dataframe(body, properties, variables, registry)
               [] generator = "engine_connection" ->
                     _generate_code_engine_connection(body, properties, variables, registry)
               [] generator = "engine" ->
                     _generate_code_engine(body, properties, variables, registry)
               [] OTHER -> Failure


\* the keys "operation", "source", "target", "operation_options" and
\* "engine" that a dict has, in this order
FirstKeys(source, target, creates_new, engine) ==
    <<"operation">>
        \o (IF source # NoName THEN <<"source">> ELSE <<>>)
        \o (IF target # NoName THEN <<"target">> ELSE <<>>)
        \o (IF creates_new THEN <<"operation_options">> ELSE <<>>)
        \o (IF engine # NoName THEN <<"engine">> ELSE <<>>)

\* the value a record gives to an argument key: a str, a list, an int or a
\* bool
ArgValue(key) ==
    CASE key = "cols" -> [type |-> "str", v |-> <<"n", "a", "m", "e">>]
      [] key = "output_cols" ->
            [type |-> "list",
             v |-> <<[type |-> "str", v |-> <<"a">>], [type |-> "int", v |-> 7]>>]
      [] key = "value" -> [type |-> "int", v |-> 12]
      [] OTHER -> [type |-> "bool", v |-> TRUE]

\* the dict of an operation record; the argument keys come after the other
\* keys, or before them when args_first
Body(operation, source, target, creates_new, engine, arg_keys, args_first) ==
    [operation |-> operation,
     source |-> source,
     target |-> target,
     creates_new |-> creates_new,
     engine |-> engine,
     keys |-> IF args_first
              THEN arg_keys \o FirstKeys(source, target, creates_new, engine)
              ELSE FirstKeys(source, target, creates_new, engine) \o arg_keys,
     args |-> [key \in Range(arg_keys) |-> ArgValue(key)]]

\* operation paths of the records, split at the dots
Operations ==
    { <<"cols", "upper">>, <<"cols", "lower">>, <<"cols", "names">>,
      <<"string_clustering">>, <<"create", "dataframe">>, <<"create", "sample">>,
      <<"connect">>, <<"Optimus">>, <<"cols", "nothing">>, <<"nothing">> }

\* the records of a batch: each names the column "name" as cols, and a
\* record of the root constructor names its engine; sh gives the receiver,
\* the explicit target and creates_new of the record
Records ==
    { Body(o, sh.source, sh.target, sh.creates_new,
           IF o[1] = "Optimus" THEN S_pandas ELSE NoName, <<"cols">>, FALSE) :
        o \in Operations,
        sh \in { [source |-> S_df, target |-> NoName, creates_new |-> FALSE],
                 [source |-> S_df, target |-> NoName, creates_new |-> TRUE],
                 [source |-> S_df, target |-> S_df2, creates_new |-> FALSE],
                 [source |-> NoName, target |-> NoName, creates_new |-> FALSE] } }

\* generate_code has not returned
NoReturn == [returned |-> FALSE]

\* "\n".join(code) of the texts of the statements
RECURSIVE JoinLines(_)
JoinLines(code) ==
    IF Len(code) = 0 THEN <<>>
    ELSE IF Len(code) = 1 THEN code[1].text
    ELSE code[1].text \o <<"\n">> \o JoinLines(Tail(code))

\* one_list_to_val: the only element of a list of one, else the list
one_list_to_val(val) ==
    IF Len(val) = 1 THEN [bare |-> TRUE, val |-> val[1]]
    ELSE [bare |-> FALSE, val |-> val]

GenInit ==
    /\ g_pc = "for"
    /\ g_body \in UNION { [1..n -> Records] : n \in 0..MaxBatch }
    /\ g_variables \in {ns \in SUBSET {S_df, S_df2} : Cardinality(ns) <= MaxNs}
    /\ g_registry \in {{}, {S_op}}
    /\ g_i = 1
    /\ g_updated = <<>>
    /\ g_code = <<>>
    /\ g_alloc = <<>>
    /\ g_ret = NoReturn

\* a slip of generate_code: the caller's names alone are passed on, without
\* the targets of the earlier records
GenStepWithoutUpdated ==
    /\ g_pc = "for"
    /\ g_i <= Len(g_body)
    /\ LET r == _generate_code(g_body[g_i], g_variables, g_registry)
       IN  /\ ~r.error
           /\ g_updated' = Append(g_updated, r.target)
           /\ g_code' = Append(g_code, r.code)
           /\ g_alloc' = Append(g_alloc, r.allocated)
    /\ g_i' = g_i + 1
    /\ UNCHANGED <<g_pc, g_body, g_variables, g_registry, g_ret>>

\* a slip of generate_code: the target of a record is put in front of the
\* targets of the earlier records
GenStepPrepends ==
    /\ g_pc = "for"
    /\ g_i <= Len(g_body)
    /\ LET r == _generate_code(g_body[g_i], Range(g_updated) \cup g_variables,
                               g_registry)
       IN  /\ ~r.error
           /\ g_updated' = <<r.target>> \o g_updated
           /\ g_code' = Append(g_code, r.code)
           /\ g_alloc' = <<r.allocated>> \o g_alloc
    /\ g_i' = g_i + 1
    /\ UNCHANGED <<g_pc, g_body, g_variables, g_registry, g_ret>>

\* a slip of generate_code: the target is appended to the list the caller
\* gave instead of to a list of the call
GenStepExtendsVariables ==
    /\ g_pc = "for"
    /\ g_i <= Len(g_body)
    /\ LET r == _generate_code(g_body[g_i], Range(g_updated) \cup g_variables,
                               g_registry)
       IN  /\ ~r.error
           /\ g_updated' = Append(g_updated, r.target)
           /\ g_variables' = g_variables \cup {r.target}
           /\ g_code' = Append(g_code, r.code)
           /\ g_alloc' = Append(g_alloc, r.allocated)
    /\ g_i' = g_i + 1
    /\ UNCHANGED <<g_pc, g_body, g_registry, g_ret>>

\* code.py:226-231, one iteration of the loop of generate_code
GenStep ==
    /\ g_pc = "for"
    /\ g_i <= Len(g_body)
    /\ LET r == _generate_code(g_body[g_i], Range(g_updated) \cup g_variables,
                               g_registry)
       IN  /\ ~r.error
           /\ g_updated' = Append(g_updated, r.target)
           /\ g_code' = Append(g_code, r.code)
           /\ g_alloc' = Append(g_alloc, r.allocated)
    /\ g_i' = g_i + 1
    /\ UNCHANGED <<g_pc, g_body, g_variables, g_registry, g_ret>>

\* a slip of generate_code: a record whose generation raises is passed over
GenRaiseSkips ==
    /\ g_pc = "for"
    /\ g_i <= Len(g_body)
    /\ _generate_code(g_body[g_i], Range(g_updated) \cup g_variables,
                      g_registry).error
    /\ g_i' = g_i + 1
    /\ UNCHANGED <<g_pc, g_body, g_variables, g_registry, g_updated, g_code, g_alloc,
                   g_ret>>

\* an exception raised in _generate_code leaves generate_code: nothing is
\* returned
GenRaise ==
    /\ g_pc = "for"
    /\ g_i <= Len(g_body)
    /\ _generate_code(g_body[g_i], Range(g_updated) \cup g_variables,
                      g_registry).error
    /\ g_pc' = "raised"
    /\ UNCHANGED <<g_body, g_variables, g_registry, g_i, g_updated, g_code, g_alloc,
                   g_ret>>

\* code.py:233, the loop is over: the joined statements and the targets
GenReturn ==
    /\ g_pc = "for"
    /\ g_i > Len(g_body)
    /\ g_pc' = "done"
    /\ g_ret' = [returned |-> TRUE,
                 code |-> JoinLines(g_code),
                 updated |-> one_list_to_val(g_updated)]
    /\ UNCHANGED <<g_body, g_variables, g_registry, g_i, g_updated, g_code, g_alloc>>

GenNext == GenStep \/ GenRaise \/ GenReturn

GenIdle ==
    /\ g_pc = "idle"
    /\ g_body = <<>>
    /\ g_variables = {}
    /\ g_registry = {}
    /\ g_i = 0
    /\ g_updated = <<>>
    /\ g_code = <<>>
    /\ g_alloc = <<>>
    /\ g_ret = NoReturn

----------------------------------------------------------------------------
(* _generate_code on one record, api/code.py *)

\* the sequences of distinct argument keys
ArgKeySeqs ==
    { ks \in UNION { [1..n -> {"cols", "output_cols", "value", "extra"}] :
                        n \in 0..MaxArgs } :
        \A i, j \in 1..Len(ks) : i # j => ks[i] # ks[j] }

EmitRecords ==
    { Body(o, source, target, creates_new, engine, ks, first) :
        o \in Operations \cup { <<"cols", "set">>, <<"cols", "count">>,
                                <<"cols", "apply">>, <<"rows", "select">>,
                                <<"Optimus", "pandas">>, <<"compute">> },
        source \in {NoName, S_df}, target \in {NoName, S_df2},
        creates_new \in BOOLEAN, engine \in {NoName, S_pandas, S_numpy},
        ks \in ArgKeySeqs, first \in BOOLEAN }

EmitInit ==
    /\ e_pc = "call"
    /\ e_body \in EmitRecords
    /\ e_variables \in {{}, {S_df}, {S_df, S_df2}}
    /\ e_registry \in {{}, {S_df}, {S_op}}
    /\ e_out = Failure

\* code.py:184-216, _generate_code returns the statement and the target
EmitReturn ==
    /\ e_pc = "call"
    /\ LET r == _generate_code(e_body, e_variables, e_registry)
       IN  /\ ~r.error
           /\ e_out' = r
    /\ e_pc' = "done"
    /\ UNCHANGED <<e_body, e_variables, e_registry>>

\* code.py:184-216, an exception leaves _generate_code
EmitRaise ==
    /\ e_pc = "call"
    /\ _generate_code(e_body, e_variables, e_registry).error
    /\ e_pc' = "raised"
    /\ UNCHANGED <<e_body, e_variables, e_registry, e_out>>

EmitNext == EmitReturn \/ EmitRaise

EmitIdle ==
    /\ e_pc = "idle"
    /\ e_body = <<>>
    /\ e_variables = {}
    /\ e_registry = {}
    /\ e_out = <<>>

----------------------------------------------------------------------------
(* Stat cache invalidation, engines/base/columns.py *)

(* An entry of "transformations.actions" is a record                        *)
(*   [name, columns, updated_stats]                                         *)
(* where columns keeps the form of the Python value: "none" (no columns),   *)
(* "str" (one name), "list" or "tuple" (an (old, new) pair), with the names *)
(* in order; updated_stats is only tested for membership and is a set.      *)

Cols == {"a", "b"}

\* not action_cols: None and the empty list are false
Falsy(action_cols) == action_cols.form = "none" \/ Len(action_cols.names) = 0

\* lines 84-85 left out: a tuple goes to val_to_list whole
ActionColsBothNames(action_cols) == action_cols.names

\* lines 84-85 and 90: of a tuple the element [1] is kept, then val_to_list
ActionCols(action_cols) ==
    IF action_cols.form = "tuple" THEN <<action_cols.names[2]>>
    ELSE action_cols.names

\* a slip of _transformed: an action counts as reconciled when any one of
\* the stats asked for is among its updated stats
TransformedAnyStat(actions, updated) ==
    UNION { IF Falsy(actions[i].columns) THEN {}
            ELSE IF updated # {} /\ (\E stat \in updated : stat \in actions[i].updated_stats)
            THEN {}
            ELSE Range(ActionCols(actions[i].columns)) : i \in 1..Len(actions) }

\* a slip of _transformed: the test len(updated) is left out
TransformedNoLenTest(actions, updated) ==
    UNION { IF Falsy(actions[i].columns) THEN {}
            ELSE IF \A stat \in updated : stat \in actions[i].updated_stats
            THEN {}
            ELSE Range(ActionCols(actions[i].columns)) : i \in 1..Len(actions) }

\* _transformed(updated) on the actions of the dataframe
_transformed(actions, updated) ==
    UNION { IF Falsy(actions[i].columns) THEN {}
            ELSE IF updated # {} /\ (\A stat \in updated : stat \in actions[i].updated_stats)
            THEN {}
            ELSE Range(ActionCols(actions[i].columns)) : i \in 1..Len(actions) }

\* a slip of the loop of _set_transformed_stat: any instead of all
MarkActionsAnyCol(actions, cols, stats) ==
    [i \in 1..Len(actions) |->
        IF Falsy(actions[i].columns) THEN actions[i]
        ELSE IF \E col \in Range(ActionCols(actions[i].columns)) : col \in cols
        THEN [actions[i] EXCEPT !.updated_stats = @ \cup stats]
        ELSE actions[i]]

\* the loop of _set_transformed_stat without the test of line 113: every
\* entry that has columns is marked
MarkActionsEveryEntry(actions, cols, stats) ==
    [i \in 1..Len(actions) |->
        IF Falsy(actions[i].columns) THEN actions[i]
        ELSE [actions[i] EXCEPT !.updated_stats = @ \cup stats]]

\* the loop of _set_transformed_stat, lines 101-116, on the list it got
MarkActions(actions, cols, stats) ==
    [i \in 1..Len(actions) |->
        IF Falsy(actions[i].columns) THEN actions[i]
        ELSE IF \A col \in Range(ActionCols(actions[i].columns)) : col \in cols
        THEN [actions[i] EXCEPT !.updated_stats = @ \cup stats]
        ELSE actions[i]]

\* the values of "columns" the transformations log
ColumnValues ==
    { [form |-> "none", names |-> <<>>],
      [form |-> "list", names |-> <<>>],
      [form |-> "str", names |-> <<"a">>],
      [form |-> "list", names |-> <<"b">>],
      [form |-> "list", names |-> <<"a", "b">>],
      [form |-> "tuple", names |-> <<"a", "b">>],
      [form |-> "tuple", names |-> <<"b", "a">>] }

\* Actions.RENAME for a pair, Actions.SET otherwise
ActionName(cv) == IF cv.form = "tuple" THEN "rename" ELSE "set"

\* the logs: at most MaxLog entries, each marked with no stat, one or two
Logs ==
    UNION { [1..n -> { [name |-> ActionName(cv), columns |-> cv, updated_stats |-> us] :
                         cv \in ColumnValues, us \in {{}, {"s"}, {"s", "t"}} }] :
              n \in 0..MaxLog }

\* line 73 without the "or []": the loop over None raises TypeError
ActionsNoDefault(absent, log) ==
    IF absent THEN [raises |-> TRUE, list |-> <<>>]
    ELSE [raises |-> FALSE, list |-> log]

\* lines 73 and 98, "Meta.get(...) or []": Meta.get gives None when the
\* meta has no "transformations.actions" (absent) and the list otherwise;
\* None and the empty list give a new empty list, and the loop over it
\* raises nothing
ActionsOrEmpty(absent, log) ==
    IF absent \/ log = <<>> THEN [raises |-> FALSE, list |-> <<>>]
    ELSE [raises |-> FALSE, list |-> log]

StatInit ==
    /\ s_pc = "start"
    /\ s_log \in Logs
    /\ s_absent \in {a \in BOOLEAN : a => s_log = <<>>}
    /\ s_prev = <<>>
    /\ s_stats \in SUBSET {"s", "t"}
    /\ s_cols \in SUBSET Cols
    /\ s_before = {}
    /\ s_after = {}

\* columns.py:72-93, the query before the marking
StatQuery ==
    /\ s_pc = "start"
    /\ LET actions == ActionsOrEmpty(s_absent, s_log)
       IN  IF actions.raises
           THEN s_pc' = "raised" /\ UNCHANGED s_before
           ELSE /\ s_before' = _transformed(actions.list, s_stats)
                /\ s_pc' = "queried"
    /\ UNCHANGED <<s_log, s_prev, s_stats, s_cols, s_after, s_absent>>

\* columns.py:95-118, the marking, with the same stat names
StatMark ==
    /\ s_pc = "queried"
    /\ s_prev' = s_log
    /\ s_log' = MarkActions(ActionsOrEmpty(s_absent, s_log).list,
                            s_cols, s_stats)
    /\ s_absent' = FALSE
    /\ s_pc' = "marked"
    /\ UNCHANGED <<s_stats, s_cols, s_before, s_after>>

\* columns.py:72-93, the query after the marking
StatRequery ==
    /\ s_pc = "marked"
    /\ LET actions == ActionsOrEmpty(s_absent, s_log)
       IN  IF actions.raises
           THEN s_pc' = "raised" /\ UNCHANGED s_after
           ELSE /\ s_after' = _transformed(actions.list, s_stats)
                /\ s_pc' = "requeried"
    /\ UNCHANGED <<s_log, s_prev, s_stats, s_cols, s_before, s_absent>>

StatNext == StatQuery \/ StatMark \/ StatRequery

StatIdle ==
    /\ s_pc = "idle"
    /\ s_log = <<>>
    /\ s_prev = <<>>
    /\ s_stats = {}
    /\ s_cols = {}
    /\ s_before = {}
    /\ s_after = {}
    /\ s_absent = FALSE

----------------------------------------------------------------------------
(* A dataframe with its meta, engines/base/columns.py *)

(* A meta object holds "transformations.actions" (actions) and, for each    *)
(* column, the cached quality of "columns.<col>.stats" (stats): the number  *)
(* of logged changes the column's data had seen when the quality was        *)
(* computed, -1 when nothing is cached.                                     *)

Refs == 1..4

NoStats == -1

EmptyMeta == [actions |-> <<>>, stats |-> [c \in Cols |-> NoStats]]

\* quality_props, columns.py:2733
quality_props == {"match", "missing", "mismatch"}

\* Meta.get(meta, key): a copy of the value under the key
Meta_get(h, ref, key) == h[ref][key]

\* Meta.set(meta, key, value): a new meta object, at the free place, equal
\* to the old one but for the key
Meta_set(h, ref, free, key, value) ==
    [heap |-> [h EXCEPT ![free] = [h[ref] EXCEPT ![key] = value]], ref |-> free]

\* Meta.action(meta, name, value): a new meta object with one more action
Meta_action(h, ref, free, name, value) ==
    Meta_set(h, ref, free, "actions",
             Append(Meta_get(h, ref, "actions"),
                    [name |-> name, columns |-> value, updated_stats |-> {}]))

\* a slip of _set_transformed_stat: the actions of self.root.meta are
\* updated where they are
SetTransformedStatInPlace(h, ref, free, cols, stats) ==
    [heap |-> [h EXCEPT ![ref].actions = MarkActions(h[ref].actions, cols, stats)],
     ref |-> ref]

\* _set_transformed_stat(cols, stats) on the dataframe whose meta is ref;
\* the result is the heap and the new value of self.root.meta
_set_transformed_stat(h, ref, free, cols, stats) ==
    LET actions == Meta_get(h, ref, "actions")
    IN  Meta_set(h, ref, free, "actions", MarkActions(actions, cols, stats))

\* quality(cols, flush) on the dataframe whose meta is ref; data[c] is what
\* a computation on the column's data yields now
quality(h, ref, free1, free2, cols, flush, data) ==
    LET transformed == _transformed(Meta_get(h, ref, "actions"), quality_props)
        cached_props == Meta_get(h, ref, "stats")
        reuse(c) == c \notin transformed /\ ~flush /\ cached_props[c] # NoStats
        res == [c \in cols |->
                   [value |-> IF reuse(c) THEN cached_props[c] ELSE data[c],
                    cached |-> reuse(c)]]
        h1 == Meta_set(h, ref, free1, "stats",
                       [c \in Cols |-> IF c \in cols THEN res[c].value
                                       ELSE cached_props[c]])
        h2 == _set_transformed_stat(h1.heap, h1.ref, free2, cols, quality_props)
    IN  [heap |-> h2.heap, ref |-> h2.ref, result |-> res]

\* two places no dataframe and no caller refers to
Free1 ==
    CHOOSE r \in Refs \ {root_meta, held} : \A q \in Refs \ {root_meta, held} : r <= q

Free2 ==
    CHOOSE r \in Refs \ {root_meta, held, Free1} :
        \A q \in Refs \ {root_meta, held, Free1} : r <= q

\* the objects nothing refers to any more are gone
Collect(h, keep) == [r \in Refs |-> IF r \in keep THEN h[r] ELSE EmptyMeta]

NoResult == [c \in {} |-> 0]

DfInit ==
    /\ heap = [r \in Refs |-> EmptyMeta]
    /\ root_meta = 1
    /\ held = 1
    /\ ver = [c \in Cols |-> 0]
    /\ clock = 0
    /\ op = [kind |-> "new"]
    /\ result = NoResult

\* a logged transformation (cols.assign, cols.drop, cols.rename, ...):
\* Meta.action on the meta of the receiver, and the returned dataframe
\* becomes the one the next calls are made on
Transform ==
    /\ clock < MaxOps
    /\ \E cv \in ColumnValues :
          LET r == Meta_action(heap, root_meta, Free1, ActionName(cv), cv)
          IN  /\ heap' = Collect(r.heap, {root_meta, r.ref})
              /\ root_meta' = r.ref
              \* the columns whose data the transformation writes: of a
              \* rename or copy pair the new column
              /\ ver' = [c \in Cols |->
                            IF c \in (IF cv.form = "tuple" THEN {cv.names[2]}
                                      ELSE Range(cv.names))
                            THEN ver[c] + 1 ELSE ver[c]]
              /\ op' = [kind |-> "transform", columns |-> cv]
    /\ held' = root_meta
    /\ clock' = clock + 1
    /\ result' = NoResult

\* columns.py:2710-2778
Quality ==
    /\ clock < MaxOps
    /\ \E cols \in (SUBSET Cols) \ {{}}, flush \in BOOLEAN :
          LET r == quality(heap, root_meta, Free1, Free2, cols, flush, ver)
          IN  /\ heap' = Collect(r.heap, {root_meta, r.ref})
              /\ root_meta' = r.ref
              /\ result' = r.result
              /\ op' = [kind |-> "quality", cols |-> cols, flush |-> flush]
    /\ held' = root_meta
    /\ clock' = clock + 1
    /\ UNCHANGED ver

\* columns.py:95-118, a call of _set_transformed_stat by itself
SetTransformedStat ==
    /\ clock < MaxOps
    /\ \E cols \in SUBSET Cols, stats \in {quality_props, {"match"}} :
          LET r == _set_transformed_stat(heap, root_meta, Free1, cols, stats)
          IN  /\ heap' = Collect(r.heap, {root_meta, r.ref})
              /\ root_meta' = r.ref
              /\ op' = [kind |-> "mark", cols |-> cols, stats |-> stats]
    /\ held' = root_meta
    /\ clock' = clock + 1
    /\ result' = NoResult
    /\ UNCHANGED ver

\* transformations and quality calls: what the callers of the dataframe do
DfNext == Transform \/ Quality

\* the same with calls of _set_transformed_stat outside quality
DfMarkNext == Transform \/ Quality \/ SetTransformedStat

DfIdle ==
    /\ heap = [r \in Refs |-> EmptyMeta]
    /\ root_meta = 0
    /\ held = 0
    /\ ver = [c \in Cols |-> 0]
    /\ clock = 0
    /\ op = [kind |-> "idle"]
    /\ result = NoResult

----------------------------------------------------------------------------
(* The Meta object of a dataframe, optimus/meta.py *)

(* There is one dataframe object, 1; every method returns it (df = self,    *)
(* return df). Its metadata refers to a list object under                   *)
(* "transformations.actions"; m_lists maps list objects to their entries.   *)

Derived == {"x", "y"}

\* an entry as append_action builds it: {action: value}
MetaEntry(action, value) == [action |-> action, value |-> value]

\* no action(name, value) call was the last call
NoCall == [name |-> "none", value |-> [form |-> "none", names |-> <<>>]]

\* Meta.get(key) of dataframe d: glom returns the list object itself
MetaObj_get(d) == m_actions[d]

\* append_action with list.insert(0, ...) in place of list.append
AppendActionPrepends(lists, old_value, action, value) ==
    [lists EXCEPT ![old_value] = <<MetaEntry(action, value)>> \o @]

\* Meta.append_action(key, action, value): the heap of lists afterwards.
\* old_value is the list object of the dataframe and append changes it;
\* set assigns the same object back.
append_action(lists, old_value, action, value) ==
    [lists EXCEPT ![old_value] = Append(@, MetaEntry(action, value))]

MetaInit ==
    /\ m_lists = [r \in (1..(MaxMetaCalls + 1)) |-> <<>>]
    /\ m_actions = [d \in {1} |-> 1]
    /\ m_handle = [h \in {"anc", "x", "y"} |-> IF h = "anc" THEN 1 ELSE 0]
    /\ m_op = "new"
    /\ m_who = "anc"
    /\ m_to = "anc"
    /\ m_in = 1
    /\ m_in_val = <<>>
    /\ m_out = 1
    /\ m_count = 0
    /\ m_arg = NoCall

\* meta.py:16-20, reset: a new empty list is assigned under the key
MetaReset ==
    /\ m_count < MaxMetaCalls
    /\ \E h \in {"anc", "x", "y"}, t \in Derived :
          /\ m_handle[h] # 0
          /\ m_handle' = [m_handle EXCEPT ![t] = m_handle[h]]
          /\ m_who' = h
          /\ m_to' = t
    /\ LET d == m_handle[m_who']
           unused == {r \in (1..(MaxMetaCalls + 1)) : r # m_actions[d] /\ m_lists[r] = <<>>}
           new == CHOOSE r \in unused : \A q \in unused : r <= q
       IN  /\ m_actions' = [m_actions EXCEPT ![d] = new]
           /\ m_out' = new
           /\ m_in' = MetaObj_get(d)
           /\ m_in_val' = m_lists[MetaObj_get(d)]
    /\ m_op' = "reset"
    /\ m_count' = m_count + 1
    /\ m_arg' = NoCall
    /\ UNCHANGED m_lists

\* meta.py:22-28 by way of copy, rename or action (meta.py:30-86): t = h.meta.action(name, value)
MetaAction ==
    /\ m_count < MaxMetaCalls
    /\ \E h \in {"anc", "x", "y"}, t \in Derived, name \in {"copy", "rename", "set"},
          value \in { [form |-> "str", names |-> <<"a">>],
                      [form |-> "tuple", names |-> <<"a", "b">>] } :
          /\ m_handle[h] # 0
          /\ m_lists' = append_action(m_lists, MetaObj_get(m_handle[h]), name, value)
          /\ m_handle' = [m_handle EXCEPT ![t] = m_handle[h]]
          /\ m_who' = h
          /\ m_to' = t
          /\ m_in' = MetaObj_get(m_handle[h])
          /\ m_in_val' = m_lists[MetaObj_get(m_handle[h])]
          /\ m_out' = m_actions[m_handle[h]]
          /\ m_arg' = [name |-> name, value |-> value]
    /\ m_op' = "append"
    /\ m_count' = m_count + 1
    /\ UNCHANGED m_actions

MetaNext == MetaReset \/ MetaAction

MetaIdle ==
    /\ m_lists = <<>>
    /\ m_actions = <<>>
    /\ m_handle = <<>>
    /\ m_op = "idle"
    /\ m_who = "anc"
    /\ m_to = "anc"
    /\ m_in = 0
    /\ m_in_val = <<>>
    /\ m_out = 0
    /\ m_count = 0
    /\ m_arg = NoCall

----------------------------------------------------------------------------
(* Dataframes and the transformations that return them,                    *)
(* engines/base/columns.py and engines/base/rows.py                        *)

(* A dataframe object has a meta; of the meta the model keeps               *)
(* "transformations.actions" (actions) and the columns that have an entry   *)
(* under "columns_data_types" (types). Meta.get, Meta.set and Meta.action   *)
(* copy, so a meta is kept as a value.                                      *)

\* largest number of transformations called
MaxChain == 3

NewMeta == [actions |-> <<>>, types |-> {}]

\* Meta.action(meta, name, value) on a meta kept as a value: the call works
\* on a heap of two places, the value at the first, the result at the second
ActionOn(meta, name, value) ==
    LET r == Meta_action(<<meta, meta>>, 1, 2, name, value)
    IN  r.heap[r.ref]

\* Meta.set(meta, "columns_data_types.<col>", props) and
\* Meta.reset(meta, "columns_data_types.<col>"): the key is there, is gone
SetTypes(meta, types) ==
    LET r == Meta_set(<<meta, meta>>, 1, 2, "types", types)
    IN  r.heap[r.ref]

\* Meta.drop_columns(meta, cols): what the meta keeps about the columns is
\* gone, the actions stay
Meta_drop_columns(meta, cols) == SetTypes(meta, meta.types \ Range(cols.names))

\* self.root.new(dfd, meta=None): the meta of the dataframe made; without
\* meta (given is FALSE) the dataframe made keeps the meta of the one it is
\* made from
root_new(receiver_meta, given, meta) == IF given THEN meta ELSE receiver_meta

ChainInit ==
    /\ d_meta = [o \in 1..(MaxChain + 1) |-> NewMeta]
    /\ d_n = 1
    /\ d_recv = 1
    /\ d_ret = 1
    /\ d_pre = NewMeta
    /\ d_call = "none"
    /\ d_count = 0

\* a call on dataframe o that returns a new dataframe with the meta
\* returned, o having the meta after when it is over
ReturnsNew(o, call, after, returned) ==
    /\ d_count < MaxChain
    /\ o \in 1..d_n
    /\ d_meta' = [d_meta EXCEPT ![o] = after, ![d_n + 1] = returned]
    /\ d_n' = d_n + 1
    /\ d_recv' = o
    /\ d_ret' = d_n + 1
    /\ d_pre' = d_meta[o]
    /\ d_call' = call
    /\ d_count' = d_count + 1

\* a call on dataframe o that ends with "return df", df being self.root
ReturnsReceiver(o, call, after) ==
    /\ d_count < MaxChain
    /\ o \in 1..d_n
    /\ d_meta' = [d_meta EXCEPT ![o] = after]
    /\ d_recv' = o
    /\ d_ret' = o
    /\ d_pre' = d_meta[o]
    /\ d_call' = call
    /\ d_count' = d_count + 1
    /\ UNCHANGED d_n

\* columns.py:747-769
ColsAssign ==
    \E o \in 1..d_n :
        LET meta == ActionOn(d_meta[o], "set", [form |-> "list", names |-> <<"a">>])
        IN  ReturnsNew(o, "cols.assign", d_meta[o], root_new(d_meta[o], TRUE, meta))

\* cols.drop with the action made on a new meta in place of df.meta
ColsDropOnNewMeta ==
    \E o \in 1..d_n :
        LET cols == [form |-> "list", names |-> <<"b">>]
            meta == Meta_drop_columns(ActionOn(NewMeta, "drop", cols), cols)
        IN  ReturnsNew(o, "cols.drop", d_meta[o], root_new(d_meta[o], TRUE, meta))

\* columns.py:195-215
ColsDrop ==
    \E o \in 1..d_n :
        LET cols == [form |-> "list", names |-> <<"b">>]
            meta == Meta_drop_columns(ActionOn(d_meta[o], "drop", cols), cols)
        IN  ReturnsNew(o, "cols.drop", d_meta[o], root_new(d_meta[o], TRUE, meta))

\* columns.py:217-238: df.meta = Meta.action(df.meta, ...) with df the
\* receiver, then new(dfd, meta=df.meta)
ColsKeep ==
    \E o \in 1..d_n :
        LET meta == ActionOn(d_meta[o], "keep", [form |-> "list", names |-> <<"a">>])
        IN  ReturnsNew(o, "cols.keep", meta, root_new(meta, TRUE, meta))

\* columns.py:342-428: new(df.data) without meta, then cols.assign on it
ColsSet ==
    \E o \in 1..d_n :
        LET new_meta == root_new(d_meta[o], FALSE, NewMeta)
            meta == ActionOn(new_meta, "set", [form |-> "list", names |-> <<"b">>])
        IN  ReturnsNew(o, "cols.set", d_meta[o], root_new(new_meta, TRUE, meta))

\* columns.py:568-593, for one column and inferred false
ColsSetDataType ==
    \E o \in 1..d_n, col_name \in Cols :
        ReturnsReceiver(o, "cols.set_data_type",
                        ActionOn(SetTypes(d_meta[o], d_meta[o].types \cup {col_name}),
                                 "inferred_type",
                                 [form |-> "str", names |-> <<col_name>>]))

\* columns.py:595-612, for one column
ColsUnsetDataType ==
    \E o \in 1..d_n, col_name \in Cols :
        ReturnsReceiver(o, "cols.unset_data_type",
                        IF col_name \in d_meta[o].types
                        THEN ActionOn(SetTypes(d_meta[o], d_meta[o].types \ {col_name}),
                                      "inferred_type",
                                      [form |-> "str", names |-> <<col_name>>])
                        ELSE d_meta[o])

\* rows.py:75-103
RowsSelect ==
    \E o \in 1..d_n :
        LET meta == ActionOn(d_meta[o], "select_row",
                             [form |-> "list", names |-> <<"a", "b">>])
        IN  ReturnsNew(o, "rows.select", d_meta[o], root_new(d_meta[o], TRUE, meta))

\* rows.py:166-187 with rows.py:27-44, for one column
RowsSort ==
    \E o \in 1..d_n :
        LET meta == ActionOn(d_meta[o], "sort_row", [form |-> "str", names |-> <<"a">>])
        IN  ReturnsNew(o, "rows.sort", d_meta[o], root_new(d_meta[o], TRUE, meta))

\* rows.py:189-195
RowsReverse ==
    \E o \in 1..d_n :
        ReturnsNew(o, "rows.reverse", d_meta[o], root_new(d_meta[o], FALSE, NewMeta))

\* rows.py:197-213
RowsDrop ==
    \E o \in 1..d_n :
        LET meta == ActionOn(d_meta[o], "drop_row", [form |-> "list", names |-> <<"a", "b">>])
        IN  ReturnsNew(o, "rows.drop", d_meta[o], root_new(d_meta[o], TRUE, meta))

\* rows.py:215-225
RowsBetweenIndex ==
    \E o \in 1..d_n :
        ReturnsNew(o, "rows.between_index", d_meta[o], root_new(d_meta[o], FALSE, NewMeta))

\* rows.py:227-233
RowsLimit ==
    \E o \in 1..d_n :
        ReturnsNew(o, "rows.limit", d_meta[o], root_new(d_meta[o], FALSE, NewMeta))

ChainNext ==
    \/ ColsAssign \/ ColsDrop \/ ColsKeep \/ ColsSet \/ ColsSetDataType
    \/ ColsUnsetDataType \/ RowsSelect \/ RowsSort \/ RowsReverse \/ RowsDrop
    \/ RowsBetweenIndex \/ RowsLimit

ChainIdle ==
    /\ d_meta = <<>>
    /\ d_n = 0
    /\ d_recv = 0
    /\ d_ret = 0
    /\ d_pre = NewMeta
    /\ d_call = "idle"
    /\ d_count = 0

----------------------------------------------------------------------------
(* The cached pattern counts of a column, engines/base/columns.py *)

(* Under "profile.columns.<col>" the meta keeps "modified", a time, and     *)
(* "patterns" with "values", "more" and "updated". A key that is not there  *)
(* reads as None: set is FALSE. Of "values" the model keeps the length.     *)

\* largest number of calls on the column
MaxPatCalls == 3

\* largest number of distinct patterns in the column's data
MaxPatterns == 3

\* largest n asked for
MaxTop == 2

NoTime == [set |-> FALSE, time |-> 0]

NoPatterns == [set |-> FALSE, values |-> 0, more |-> FALSE, updated |-> 0]

\* calculate_pattern_counts without "or patterns_more" in its condition
CalculateWithoutMore(modified, patterns, flush, n, now, distinct) ==
    LET column_modified_time == IF modified.set THEN modified.time ELSE -1
        patterns_update_time == IF patterns.set THEN patterns.updated ELSE 0
        recompute == \/ column_modified_time > patterns_update_time
                     \/ patterns_update_time = 0
                     \/ flush
        computed == [set |-> TRUE,
                     values |-> IF distinct <= n THEN distinct ELSE n,
                     more |-> distinct > n,
                     updated |-> now]
    IN  IF recompute
        THEN [patterns |-> computed, recomputed |-> TRUE, result |-> computed]
        ELSE [patterns |-> patterns, recomputed |-> FALSE, result |-> patterns]

\* columns.py:772-825 for one column: the patterns the meta holds afterwards,
\* whether line 806 ran, and result[input_col]. frequency(n + 1) gives at
\* most n + 1 values; with more than n the extra one is popped and "more"
\* is set; "updated" becomes time.time()
calculate_pattern_counts(modified, patterns, flush, n, now, distinct) ==
    LET column_modified_time == IF modified.set THEN modified.time ELSE -1
        patterns_update_time == IF patterns.set THEN patterns.updated ELSE 0
        patterns_more == patterns.set /\ patterns.more
        recompute == \/ column_modified_time > patterns_update_time
                     \/ patterns_update_time = 0
                     \/ flush
                     \/ patterns_more
        computed == [set |-> TRUE,
                     values |-> IF distinct <= n THEN distinct ELSE n,
                     more |-> distinct > n,
                     updated |-> now]
    IN  IF recompute
        THEN [patterns |-> computed, recomputed |-> TRUE, result |-> computed]
        ELSE [patterns |-> patterns, recomputed |-> FALSE, result |-> patterns]

\* columns.py:856-908 for one column: whether calculate_pattern_counts is
\* called, what it gives then, and the patterns returned, cut to n values
pattern_counts(modified, patterns, flush, n, now, distinct) ==
    LET column_modified_time == IF modified.set THEN modified.time ELSE -1
        patterns_update_time == IF patterns.set THEN patterns.updated ELSE 0
        calculate == \/ flush
                     \/ ~patterns.set
                     \/ (patterns.values < n /\ patterns.more)
                     \/ column_modified_time > patterns_update_time
                     \/ patterns_update_time = 0
        r == IF calculate
             THEN calculate_pattern_counts(modified, patterns, flush, n, now, distinct)
             ELSE [patterns |-> patterns, recomputed |-> FALSE, result |-> patterns]
    IN  [calculate |-> calculate,
         patterns |-> r.patterns,
         recomputed |-> r.recomputed,
         result |-> r.result,
         returned |-> [r.patterns EXCEPT !.values = IF @ <= n THEN @ ELSE n,
                                         !.more = @ \/ r.patterns.values > n]]

NoPatCall ==
    [kind |-> "none", flush |-> FALSE, n |-> 0, modified |-> NoTime,
     patterns |-> NoPatterns, recomputed |-> FALSE, result |-> NoPatterns,
     returned |-> NoPatterns]

PatInit ==
    /\ p_modified = NoTime
    /\ p_patterns = NoPatterns
    /\ p_now = 1
    /\ p_distinct \in 1..MaxPatterns
    /\ p_call = NoPatCall
    /\ p_count = 0

\* the column's data is changed and "profile.columns.<col>.modified" is set
\* to the time of the change
PatModify ==
    /\ p_count < MaxPatCalls
    /\ p_modified' = [set |-> TRUE, time |-> p_now]
    /\ p_distinct' \in 1..MaxPatterns
    /\ p_now' = p_now + 1
    /\ p_call' = [NoPatCall EXCEPT !.kind = "modify"]
    /\ p_count' = p_count + 1
    /\ UNCHANGED p_patterns

\* columns.py:772-825, a call of calculate_pattern_counts on the column
PatCalculate ==
    /\ p_count < MaxPatCalls
    /\ \E flush \in BOOLEAN, n \in 1..MaxTop :
          LET r == calculate_pattern_counts(p_modified, p_patterns, flush, n, p_now,
                                            p_distinct)
          IN  /\ p_patterns' = r.patterns
              /\ p_call' = [kind |-> "calculate", flush |-> flush, n |-> n,
                            modified |-> p_modified, patterns |-> p_patterns,
                            recomputed |-> r.recomputed, result |-> r.result,
                            returned |-> NoPatterns]
    /\ p_now' = p_now + 1
    /\ p_count' = p_count + 1
    /\ UNCHANGED <<p_modified, p_distinct>>

\* columns.py:856-908, a call of pattern_counts on the column; when it calls
\* calculate_pattern_counts that call is the last one
PatPatternCounts ==
    /\ p_count < MaxPatCalls
    /\ \E flush \in BOOLEAN, n \in 1..MaxTop :
          LET r == pattern_counts(p_modified, p_patterns, flush, n, p_now, p_distinct)
          IN  /\ p_patterns' = r.patterns
              /\ p_call' = [kind |-> IF r.calculate THEN "calculate" ELSE "pattern_counts",
                            flush |-> flush, n |-> n,
                            modified |-> p_modified, patterns |-> p_patterns,
                            recomputed |-> r.recomputed, result |-> r.result,
                            returned |-> r.returned]
    /\ p_now' = p_now + 1
    /\ p_count' = p_count + 1
    /\ UNCHANGED <<p_modified, p_distinct>>

PatNext == PatModify \/ PatCalculate \/ PatPatternCounts

PatIdle ==
    /\ p_modified = NoTime
    /\ p_patterns = NoPatterns
    /\ p_now = 0
    /\ p_distinct = 0
    /\ p_call = [NoPatCall EXCEPT !.kind = "idle"]
    /\ p_count = 0

----------------------------------------------------------------------------
(* Specifications *)

InitAlloc == AllocInit /\ GenIdle /\ EmitIdle /\ StatIdle /\ DfIdle /\ MetaIdle
    /\ ChainIdle /\ PatIdle

NextAlloc == AllocNext /\ UNCHANGED <<genVars, emitVars, statVars, dfVars, metaVars, chainVars,
                 patVars>>

\* the loop of _create_new_variable runs to its end: nothing suspends it
SpecAlloc == InitAlloc /\ [][NextAlloc]_vars /\ WF_vars(NextAlloc)

InitGen == GenInit /\ AllocIdle /\ EmitIdle /\ StatIdle /\ DfIdle /\ MetaIdle
    /\ ChainIdle /\ PatIdle

NextGen == GenNext /\ UNCHANGED <<allocVars, emitVars, statVars, dfVars, metaVars, chainVars,
                 patVars>>

SpecGen == InitGen /\ [][NextGen]_vars

InitEmit == EmitInit /\ AllocIdle /\ GenIdle /\ StatIdle /\ DfIdle /\ MetaIdle
    /\ ChainIdle /\ PatIdle

NextEmit == EmitNext /\ UNCHANGED <<allocVars, genVars, statVars, dfVars, metaVars, chainVars,
                 patVars>>

SpecEmit == InitEmit /\ [][NextEmit]_vars

InitStat == StatInit /\ AllocIdle /\ GenIdle /\ EmitIdle /\ DfIdle /\ MetaIdle
    /\ ChainIdle /\ PatIdle

NextStat == StatNext /\ UNCHANGED <<allocVars, genVars, emitVars, dfVars, metaVars, chainVars,
                 patVars>>

SpecStat == InitStat /\ [][NextStat]_vars

Init == DfInit /\ AllocIdle /\ GenIdle /\ EmitIdle /\ StatIdle /\ MetaIdle
    /\ ChainIdle /\ PatIdle

Next == DfNext /\ UNCHANGED <<allocVars, genVars, emitVars, statVars, metaVars, chainVars,
                 patVars>>

Spec == Init /\ [][Next]_vars

NextMark == DfMarkNext /\ UNCHANGED <<allocVars, genVars, emitVars, statVars, metaVars, chainVars,
                 patVars>>

SpecMark == Init /\ [][NextMark]_vars

InitMeta == MetaInit /\ AllocIdle /\ GenIdle /\ EmitIdle /\ StatIdle /\ DfIdle
    /\ ChainIdle /\ PatIdle

NextMeta == MetaNext /\ UNCHANGED <<allocVars, genVars, emitVars, statVars, dfVars, chainVars,
                 patVars>>

SpecMeta == InitMeta /\ [][NextMeta]_vars

InitChain == ChainInit /\ AllocIdle /\ GenIdle /\ EmitIdle /\ StatIdle /\ DfIdle /\ MetaIdle
    /\ PatIdle

NextChain == ChainNext /\ UNCHANGED <<allocVars, genVars, emitVars, statVars, dfVars, metaVars,
                 patVars>>

SpecChain == InitChain /\ [][NextChain]_vars

InitPat == PatInit /\ AllocIdle /\ GenIdle /\ EmitIdle /\ StatIdle /\ DfIdle /\ MetaIdle
    /\ ChainIdle

NextPat == PatNext /\ UNCHANGED <<allocVars, genVars, emitVars, statVars, dfVars, metaVars,
                 chainVars>>

SpecPat == InitPat /\ [][NextPat]_vars

----------------------------------------------------------------------------
(* Claims on the variable allocator *)

\* C9: for every base name and every finite namespace the allocator
\* terminates; it returns base_name unchanged when base_name is not in the
\* namespace, and in every case a name that is not in the namespace.
C9_AllocateTerminatesFresh ==
    /\ <>(a_pc = "done")
    /\ [](a_pc = "done" =>
            /\ a_cand \notin a_names
            /\ (a_base \notin a_names => a_cand = a_base))

\* "df" collides twice while the namespace also holds "df9"
C9_Witness ==
    a_pc = "done" /\ a_base = S_df /\ a_names = {S_df, S_df2, S_df9} /\ a_cand = S_df3

\* the number of digits that end s
RECURSIVE TrailLen(_)
TrailLen(s) ==
    IF Len(s) = 0 \/ ~IsDigit(s[Len(s)]) THEN 0
    ELSE 1 + TrailLen(SubSeq(s, 1, Len(s) - 1))

\* the candidate after s in the sequence of the increment law
NextCandidate(s) ==
    LET d == TrailLen(s)
    IN  IF d = 0 THEN Append(s, "2")
        ELSE SubSeq(s, 1, Len(s) - d)
                 \o IntToStr(StrToInt(SubSeq(s, Len(s) - d + 1, Len(s))) + 1)

RECURSIVE Candidate(_, _)
Candidate(s, k) == IF k = 0 THEN s ELSE NextCandidate(Candidate(s, k - 1))

\* C10: on return the allocator's result is the first name absent from the
\* namespace in the sequence base, next(base), next(next(base)), ... where
\* next replaces a trailing decimal suffix n by n+1 or appends "2"; with the
\* five examples of the law.
C10_IncrementLaw ==
    a_pc = "done" =>
        /\ \E k \in 0..Cardinality(a_names) :
               /\ a_cand = Candidate(a_base, k)
               /\ \A j \in 0..(k - 1) : Candidate(a_base, j) \in a_names
               /\ Candidate(a_base, k) \notin a_names
        /\ (a_base = S_df /\ a_names = {} => a_cand = S_df)
        /\ (a_base = S_df /\ a_names = {S_df} => a_cand = S_df2)
        /\ (a_base = S_df2 /\ a_names = {S_df2} => a_cand = S_df3)
        /\ (a_base = S_x9 /\ a_names = {S_x9} => a_cand = S_x10)
        /\ (a_base = S_df /\ a_names = {S_df, S_df2} => a_cand = S_df3)

\* "x9" collides and the suffix gains a digit
C10_Witness ==
    a_pc = "done" /\ a_base = S_x9 /\ a_names = {S_x9} /\ a_cand = S_x10

----------------------------------------------------------------------------
(* Claims on the batch driver *)

\* C1 as stated: the target names returned by generate are pairwise
\* distinct and none of them is in the external namespace.
C1_AllTargetsDistinct ==
    g_pc = "done" =>
        /\ \A i, j \in 1..Len(g_updated) : i # j => g_updated[i] # g_updated[j]
        /\ \A i \in 1..Len(g_updated) : g_updated[i] \notin g_variables

\* C1 amended: every target name that generate takes from the allocator
\* differs from the target of every earlier record of the batch, hence from
\* every other allocated name, and is not in the external namespace.
C1_AllocatedTargetsDistinct ==
    \A i \in 1..Len(g_updated) :
        g_alloc[i] =>
            /\ g_updated[i] \notin g_variables
            /\ \A j \in 1..(i - 1) : g_updated[j] # g_updated[i]

\* a batch of two records that both took their names from the allocator,
\* the base name being taken already
C1_Witness ==
    /\ g_pc = "done"
    /\ Len(g_updated) = 2
    /\ g_alloc[1] /\ g_alloc[2]
    /\ g_updated[1] = S_df2
    /\ g_updated[2] = S_df3

----------------------------------------------------------------------------
(* Claims on the target names of one record *)

\* the namespace and the return category a record resolves to, Missing's
\* category when it does not resolve
RootNamespace(body) ==
    LET root == ResolveHead(body).root
    IN  CASE root = "optimus" -> "RootConstructor"
          [] root = "engine" -> "EngineAccessor"
          [] root = "dataframe" -> "DataFrameAccessor"
          [] OTHER -> "None"

ReturnCategory(body) ==
    LET h == ResolveHead(body)
        returns == WalkChain(h.cls, h.chain).returns
    IN  CASE returns = "missing" -> "None"
          [] returns = "DataFrameType" -> "NewDataFrame"
          [] returns = "ClustersType" -> "ClusterSet"
          [] returns = "ConnectionType" -> "Connection"
          [] OTHER -> "Generic"

ResolvesTo(body, namespace, category) ==
    RootNamespace(body) = namespace /\ ReturnCategory(body) = category

\* the namespace of an allocation: the names given and the live identifiers
EmitNs == e_variables \cup e_registry

\* allocate(base, ns): the first name of base, next(base), ... not in ns
allocate(base, ns) ==
    Candidate(base, CHOOSE k \in 0..Cardinality(ns) :
                        /\ Candidate(base, k) \notin ns
                        /\ \A j \in 0..(k - 1) : Candidate(base, j) \in ns)

\* C11 as stated: for every record that resolves to (DataFrameAccessor,
\* NewDataFrame) the target name is the record's source unless creates_new is
\* true, in which case it is allocate("df", ns).
C11_TargetIsSource ==
    (e_pc = "done" /\ ResolvesTo(e_body, "DataFrameAccessor", "NewDataFrame")) =>
        e_out.target = IF e_body.creates_new THEN allocate(S_df, EmitNs)
                       ELSE e_body.source

\* C11 amended: for every record that resolves to (DataFrameAccessor,
\* NewDataFrame) and has a source or an explicit target, a target name is
\* produced: allocate("df", ns) when creates_new is true, and otherwise the
\* explicit target of the record when it has one, else its source.
C11_TargetOrSource ==
    ResolvesTo(e_body, "DataFrameAccessor", "NewDataFrame") =>
        /\ (e_body.source # NoName \/ e_body.target # NoName) => e_pc # "raised"
        /\ e_pc = "done" =>
              e_out.target = IF e_body.creates_new THEN allocate(S_df, EmitNs)
                             ELSE IF e_body.target # NoName THEN e_body.target
                             ELSE e_body.source

\* cols.upper on df with the explicit target df2
C11_Witness ==
    /\ e_pc = "done"
    /\ e_body.operation = <<"cols", "upper">>
    /\ e_body.source = S_df
    /\ e_body.target = S_df2
    /\ ~e_body.creates_new
    /\ e_out.target = S_df2

\* C12: when a dataframe-transformation record has creates_new true, the
\* generated target differs from the record's source and from every name of
\* the namespace, for every namespace including the empty one.
C12_CreatesNewIsBrandNew ==
    (/\ e_pc = "done"
     /\ ResolvesTo(e_body, "DataFrameAccessor", "NewDataFrame")
     /\ e_body.creates_new) =>
        /\ e_out.target # e_body.source
        /\ e_out.target \notin EmitNs

\* the explicit target of the record if it has one, else the given name
ExplicitOr(body, name) == IF body.target # NoName THEN body.target ELSE name

\* C13: for every record that resolves to (EngineAccessor, Generic) the
\* target name is the explicit target if given and otherwise
\* allocate("op", ns).
C13_EngineGenericAllocatesOp ==
    (e_pc = "done" /\ ResolvesTo(e_body, "EngineAccessor", "Generic")) =>
        e_out.target = ExplicitOr(e_body, allocate(S_op, EmitNs))

\* C14: for records resolving to (DataFrameAccessor, ClusterSet),
\* (DataFrameAccessor, Generic), (EngineAccessor, NewDataFrame),
\* (EngineAccessor, Connection) and (RootConstructor, any) a target name is
\* produced: the explicit target when one is given, and otherwise
\* allocate("clusters", ns), "result", allocate("df", ns),
\* allocate("conn", ns) and allocate("op", ns) respectively.
C14_NamingTable ==
    LET Row(namespace, category, name) ==
            ResolvesTo(e_body, namespace, category) =>
                /\ e_pc # "raised"
                /\ e_pc = "done" => e_out.target = ExplicitOr(e_body, name)
    IN  /\ Row("DataFrameAccessor", "ClusterSet", allocate(S_clusters, EmitNs))
        /\ Row("DataFrameAccessor", "Generic", S_result)
        /\ Row("EngineAccessor", "NewDataFrame", allocate(S_df, EmitNs))
        /\ Row("EngineAccessor", "Connection", allocate(S_conn, EmitNs))
        /\ \A category \in {"NewDataFrame", "ClusterSet", "Connection", "Generic"} :
               Row("RootConstructor", category, allocate(S_op, EmitNs))

\* the root constructor without an explicit target while "op" is a live
\* identifier
C14_Witness ==
    /\ e_pc = "done"
    /\ e_body.operation = <<"Optimus">>
    /\ e_body.target = NoName
    /\ e_registry = {S_op}
    /\ e_out.target = <<"o", "p", "2">>

\* the namespace has an attribute of this name
Defines(cls, head) == Catalog(cls, head).returns # "missing"

\* the classification of a record by the head of its operation path: the
\* root namespace, the class asked for the operation and the chain walked
ByHead(body) ==
    LET operation == body.operation
        head == operation[1]
    IN  CASE head = "Optimus" ->
                [namespace |-> "RootConstructor", cls |-> "constructor", chain |-> <<>>]
          [] head = "create" ->
                [namespace |-> "EngineAccessor", cls |-> "create_class",
                 chain |-> Tail(operation)]
          [] head = "cols" ->
                [namespace |-> "DataFrameAccessor", cls |-> "cols_class",
                 chain |-> Tail(operation)]
          [] head = "rows" ->
                [namespace |-> "DataFrameAccessor", cls |-> "rows_class",
                 chain |-> Tail(operation)]
          [] OTHER ->
                IF Defines("dataframe_class", head)
                THEN [namespace |-> "DataFrameAccessor", cls |-> "dataframe_class",
                      chain |-> operation]
                ELSE IF Defines("engine_class", head)
                THEN [namespace |-> "EngineAccessor", cls |-> "engine_class",
                      chain |-> operation]
                ELSE [namespace |-> "None", cls |-> "None", chain |-> operation]

\* the parameters of the operation the classification leads to
ParametersByHead(body) ==
    LET c == ByHead(body)
    IN  IF c.cls = "constructor"
        THEN Catalog(_init_methods(body.engine), "__init__").arguments
        ELSE Catalog(c.cls, c.chain[Len(c.chain)]).arguments

\* C25: the head of the operation path decides the classification: the root
\* constructor's name gives a RootConstructor record whatever follows it;
\* create gives an EngineAccessor record and cols and rows a
\* DataFrameAccessor record, the rest of the path being walked to the final
\* operation; any other head is looked up in the dataframe namespace and
\* then in the engine namespace, the dataframe namespace winning when both
\* define it. The statement is emitted for the operation so found.
C25_HeadDecides ==
    e_pc \in {"done", "raised"} =>
        /\ RootNamespace(e_body) = ByHead(e_body).namespace
        /\ ResolveHead(e_body).chain = ByHead(e_body).chain
        /\ e_pc = "done" =>
              \/ Len(ParametersByHead(e_body)) = 0
              \/ "kwargs" \in Range(ParametersByHead(e_body))
              \/ \A i \in 1..Len(e_out.code.arguments) :
                    e_out.code.arguments[i].name \in Range(ParametersByHead(e_body))

\* compute is defined by the dataframe namespace and by the engine
\* namespace: the record is a dataframe record, emitted with the parameter
\* of the dataframe's compute
C25_Witness ==
    /\ e_pc = "done"
    /\ e_body.operation = <<"compute">>
    /\ Defines("dataframe_class", "compute") /\ Defines("engine_class", "compute")
    /\ RootNamespace(e_body) = "DataFrameAccessor"
    /\ e_body.keys = <<"operation", "source", "cols", "value">>
    /\ Len(e_out.code.arguments) = 1
    /\ e_out.code.arguments[1].name = "cols"
    /\ e_out.target = S_result

----------------------------------------------------------------------------
(* Claims on the emitted statement *)

\* C15 as stated: the statement carries the receiver prefix "source." for
\* every record that is not a RootConstructor record and never for a
\* RootConstructor record, whatever keys the record contains.
C15_ReceiverByNamespace ==
    e_pc = "done" =>
        IF RootNamespace(e_body) = "RootConstructor"
        THEN e_out.code.receiver = NoName
        ELSE e_out.code.receiver # NoName /\ e_out.code.receiver = e_body.source

\* the text starts with the given characters
StartsWith(text, prefix) ==
    Len(text) >= Len(prefix) /\ SubSeq(text, 1, Len(prefix)) = prefix

\* C15 amended: the statement carries the receiver prefix "source." exactly
\* when the record has a (non-empty) source, whatever namespace the record
\* resolves to: a record without a source, RootConstructor or not, carries
\* no prefix, and a record with a source, RootConstructor or not, carries it.
C15_ReceiverBySource ==
    e_pc = "done" =>
        /\ e_out.code.receiver = e_body.source
        /\ StartsWith(e_out.code.text,
                      e_out.target \o <<" ", "=", " ">>
                          \o (IF e_body.source # NoName
                              THEN e_body.source \o <<".">> ELSE <<>>)
                          \o <<e_body.operation[1]>>)

\* a record of the root constructor that has a source
C15_Witness ==
    /\ e_pc = "done"
    /\ e_body.operation = <<"Optimus">>
    /\ e_body.source = S_df
    /\ e_out.code.receiver = S_df

\* the batch of the end-to-end scenario: cols.upper on df with cols='name',
\* then cols.lower on df with cols='name' and creates_new true
Scenario ==
    << Body(<<"cols", "upper">>, S_df, NoName, FALSE, NoName, <<"cols">>, FALSE),
       Body(<<"cols", "lower">>, S_df, NoName, TRUE, NoName, <<"cols">>, FALSE) >>

T_assign == <<" ", "=", " ">>

T_cols_name == <<"(", "cols", "=", "'", "n", "a", "m", "e", "'", ")">>

\* C16 as stated: every statement has the shape
\* <target> = [<source>.]<final-operation-name>(<arguments>), the operation
\* name being the final segment of the dotted path; the scenario with an
\* empty external namespace yields the targets ["df", "df2"] and the
\* statements "df = df.upper(cols='name')", "df2 = df.lower(cols='name')".
C16_FinalOperationName ==
    /\ \A i \in 1..Len(g_code) :
           LET operation == g_body[i].operation
           IN  StartsWith(g_code[i].text,
                          g_updated[i] \o T_assign
                              \o (IF g_body[i].source # NoName
                                  THEN g_body[i].source \o <<".">> ELSE <<>>)
                              \o <<operation[Len(operation)], "(">>)
    /\ (g_pc = "done" /\ g_body = Scenario /\ g_variables = {}) =>
           /\ g_updated = <<S_df, S_df2>>
           /\ g_code[1].text = S_df \o T_assign \o S_df \o <<".", "upper">> \o T_cols_name
           /\ g_code[2].text = S_df2 \o T_assign \o S_df \o <<".", "lower">> \o T_cols_name

\* C16 amended: every statement has the shape
\* <target> = [<source>.]<operation>(<arguments>), the operation being the
\* whole dotted path of the record; the scenario with an empty external
\* namespace and no live identifier named "df" or "df2" yields the targets
\* ["df", "df2"] and the statements "df = df.cols.upper(cols='name')" and
\* "df2 = df.cols.lower(cols='name')".
C16_StatementShape ==
    /\ \A i \in 1..Len(g_code) :
           /\ StartsWith(g_code[i].text,
                         g_updated[i] \o T_assign
                             \o (IF g_body[i].source # NoName
                                 THEN g_body[i].source \o <<".">> ELSE <<>>)
                             \o Dotted(g_body[i].operation) \o <<"(">>)
           /\ g_code[i].text[Len(g_code[i].text)] = ")"
    /\ (/\ g_pc = "done" /\ g_body = Scenario
        /\ g_variables = {} /\ g_registry \cap {S_df, S_df2} = {}) =>
           /\ g_updated = <<S_df, S_df2>>
           /\ g_code[1].text =
                  S_df \o T_assign \o S_df \o <<".", "cols", ".", "upper">> \o T_cols_name
           /\ g_code[2].text =
                  S_df2 \o T_assign \o S_df \o <<".", "cols", ".", "lower">> \o T_cols_name

\* the scenario has run
C16_Witness ==
    /\ g_pc = "done"
    /\ g_body = Scenario
    /\ g_variables = {}
    /\ g_registry = {}
    /\ g_updated = <<S_df, S_df2>>

\* the parameters of the descriptor a record resolves to
Parameters(body) ==
    LET h == ResolveHead(body)
    IN  WalkChain(h.cls, h.chain).arguments

\* the descriptor accepts an open-ended argument mapping
AcceptsOverflow(body) == "kwargs" \in Range(Parameters(body))

\* the 1-based place of a name in a sequence without repetitions
IndexOf(seq, x) == CHOOSE i \in 1..Len(seq) : seq[i] = x

\* the emitted arguments are the given names in the given relative order,
\* each once, with the text of the record's value
EmitsInOrderOf(arguments, names, order, body) ==
    /\ {arguments[i].name : i \in 1..Len(arguments)} = names
    /\ Len(arguments) = Cardinality(names)
    /\ \A i, j \in 1..Len(arguments) :
           i < j => IndexOf(order, arguments[i].name) < IndexOf(order, arguments[j].name)
    /\ \A i \in 1..Len(arguments) :
           arguments[i].text = pformat(BodyValue(body, arguments[i].name))

\* C17: when the descriptor has a fixed parameter list (no open-ended
\* argument mapping) the emitter serializes exactly the record arguments
\* whose keys are declared parameters, in the declared parameter order, each
\* as name=<text>; keys that are not declared parameters are never emitted.
C17_FixedParameters ==
    (/\ e_pc = "done"
     /\ Len(Parameters(e_body)) > 0
     /\ ~AcceptsOverflow(e_body)) =>
        EmitsInOrderOf(e_out.code.arguments,
                       Range(Parameters(e_body)) \cap Range(e_body.keys),
                       Parameters(e_body), e_body)

\* cols.upper of a record that gives output_cols before cols
C17_Witness ==
    /\ e_pc = "done"
    /\ e_body.operation = <<"cols", "upper">>
    /\ e_body.keys = <<"output_cols", "cols", "operation", "source">>
    /\ Len(e_out.code.arguments) = 2
    /\ e_out.code.arguments[1].name = "cols"
    /\ e_out.code.arguments[2].name = "output_cols"

\* C18: when the descriptor accepts an open-ended argument mapping or
\* declares no parameters, the emitter serializes every key of the record in
\* the record's own key order except the four control keys source, target,
\* operation and options ("operation_options" in a record), none of which is
\* ever emitted as an argument.
C18_OpenEnded ==
    (/\ e_pc = "done"
     /\ (Len(Parameters(e_body)) = 0 \/ AcceptsOverflow(e_body))) =>
        EmitsInOrderOf(e_out.code.arguments,
                       Range(e_body.keys)
                           \ {"source", "target", "operation", "operation_options"},
                       e_body.keys, e_body)

\* cols.apply of a record that has all four control keys and two arguments
C18_Witness ==
    /\ e_pc = "done"
    /\ e_body.operation = <<"cols", "apply">>
    /\ e_body.keys = <<"extra", "cols", "operation", "source", "target", "operation_options">>
    /\ Len(e_out.code.arguments) = 2
    /\ e_out.code.arguments[1].name = "extra"
    /\ e_out.code.arguments[2].name = "cols"

----------------------------------------------------------------------------
(* Claims on the order of a batch *)

\* the base name of the allocation the naming table gives a record
BaseOf(body) ==
    CASE RootNamespace(body) = "RootConstructor" -> S_op
      [] ResolvesTo(body, "DataFrameAccessor", "ClusterSet") -> S_clusters
      [] ResolvesTo(body, "EngineAccessor", "Connection") -> S_conn
      [] OTHER -> S_df

\* C19: generate processes records strictly in order: the i-th statement
\* and the i-th returned target belong to record i, one of each per record;
\* the namespace of the allocation for record i is the external namespace
\* (with the live identifiers) plus exactly the target names produced for the
\* records before it, so a name allocated for an earlier record is never
\* allocated again for a later record of the batch.
C19_RecordsInOrder ==
    /\ g_pc \in {"for", "done"} =>
           /\ Len(g_code) = g_i - 1
           /\ Len(g_updated) = g_i - 1
    /\ \A i \in 1..Len(g_code) :
           /\ g_code[i].operation = g_body[i].operation
           /\ g_code[i].receiver = g_body[i].source
           /\ g_code[i].target = g_updated[i]
           /\ g_alloc[i] =>
                  g_updated[i] =
                      allocate(BaseOf(g_body[i]),
                               g_variables \cup g_registry
                                   \cup {g_updated[j] : j \in 1..(i - 1)})
           /\ \A j \in 1..(i - 1) :
                  (g_alloc[i] /\ g_alloc[j]) => g_updated[i] # g_updated[j]
    /\ g_pc = "done" =>
           /\ Len(g_updated) = Len(g_body)
           /\ g_ret.returned
           /\ g_ret.code = JoinLines(g_code)
           /\ g_ret.updated.val = IF Len(g_body) = 1 THEN g_updated[1] ELSE g_updated

\* two records of create.dataframe without target: the second allocation
\* sees the name of the first
C19_Witness ==
    /\ g_pc = "done"
    /\ Len(g_body) = 2
    /\ g_body[1].operation = <<"create", "dataframe">>
    /\ g_body[2].operation = <<"create", "dataframe">>
    /\ g_variables = {}
    /\ g_updated = <<S_df, S_df2>>
    /\ g_ret.updated.val = <<S_df, S_df2>>

\* no namespace matches the head of the path, or no attribute matches the
\* remaining chain
Unresolved(body) == ReturnCategory(body) = "None"

\* C20: if a record of the batch has an operation path that does not
\* resolve, generate aborts the whole batch: it returns no statements and no
\* targets, and it never passes over the record or goes on with a default
\* descriptor for it.
C20_UnresolvedAborts ==
    \A i \in 1..Len(g_body) :
        Unresolved(g_body[i]) =>
            /\ g_pc # "done"
            /\ g_ret = NoReturn
            /\ g_i <= i
            /\ Len(g_code) < i
            /\ Len(g_updated) < i

\* the second record of a batch does not resolve: the statement of the
\* first is dropped with the exception
C20_Witness ==
    /\ g_pc = "raised"
    /\ Len(g_body) = 2
    /\ ~Unresolved(g_body[1])
    /\ Unresolved(g_body[2])
    /\ Len(g_code) = 1
    /\ g_ret = NoReturn

\* C26: generate changes nothing it was given: every step leaves the
\* records, the caller's namespace and the registry of live identifiers as
\* they were, and a name taken from the allocator is only in the list of
\* targets of the call, never in the caller's namespace or in the registry.
C26_NoSideEffects ==
    [][ /\ g_body' = g_body
        /\ g_variables' = g_variables
        /\ g_registry' = g_registry
        /\ \A i \in 1..Len(g_updated') :
               g_alloc'[i] => g_updated'[i] \notin g_variables' \cup g_registry' ]_vars

\* a batch that made the allocator give two names, one for an engine next
\* to the live identifier op and one for a dataframe
C26_Witness ==
    /\ g_pc = "done"
    /\ g_ret.returned
    /\ g_registry = {S_op}
    /\ g_variables = {S_df}
    /\ Len(g_body) = 2
    /\ g_body[1].operation = <<"Optimus">>
    /\ g_alloc = <<TRUE, TRUE>>
    /\ g_updated = <<<<"o", "p", "2">>, S_df2>>

----------------------------------------------------------------------------
(* Claims on the stat cache invalidator *)

\* the columns of an entry as a set, both names of a pair included
AllColumns(e) == Range(e.columns.names)

\* the columns of an entry, of an (old, new) pair the new name alone
TouchedColumns(e) ==
    IF e.columns.form = "tuple" THEN {e.columns.names[2]} ELSE Range(e.columns.names)

FreshFor(e, stat_names) == stat_names \subseteq e.updated_stats

\* C3 as stated: for every set of stat names, the empty one included, the
\* stale columns are the columns c that some entry touches whose fresh stats
\* do not contain every name asked for.
C3_StaleAllSets ==
    s_pc = "queried" =>
        s_before = {c \in Cols : \E i \in 1..Len(s_log) :
                        c \in AllColumns(s_log[i]) /\ ~FreshFor(s_log[i], s_stats)}

\* C3 amended: for a non-empty set of stat names the stale columns are the
\* columns c that some entry touches whose fresh stats do not contain every
\* name asked for, an (old, new) pair touching its new name alone; for the
\* empty set they are all the columns that any entry touches.
C3_StaleColumns ==
    s_pc = "queried" =>
        s_before = {c \in Cols : \E i \in 1..Len(s_log) :
                        /\ c \in TouchedColumns(s_log[i])
                        /\ (s_stats = {} \/ ~FreshFor(s_log[i], s_stats))}

\* a query with no stat names on a log whose entries are all fresh for
\* some stats, which still reports a column
C3_Witness ==
    /\ s_pc = "queried"
    /\ s_stats = {}
    /\ Len(s_log) = 2
    /\ \A i \in 1..Len(s_log) : s_log[i].updated_stats = {"s", "t"}
    /\ s_log[1].columns.form = "tuple"
    /\ s_before = {"a", "b"}

\* C5 as stated: when some entry touches column c and every entry touching
\* c has its columns, as a set, within cols, c is stale for the non-empty S
\* before mark_fresh(log, cols, S) and not stale after it.
C5_RoundTripAnyLog ==
    s_pc = "requeried" =>
        \A c \in Cols :
            ( /\ s_stats # {}
              /\ \E i \in 1..Len(s_prev) : c \in AllColumns(s_prev[i])
              /\ \A i \in 1..Len(s_prev) :
                    c \in AllColumns(s_prev[i]) => AllColumns(s_prev[i]) \subseteq s_cols )
            => c \in s_before /\ c \notin s_after

\* some entry touching column c is not fresh for the non-empty stat names,
\* and every entry touching c has its columns within cols
RoundTripCase(c) ==
    /\ s_stats # {}
    /\ \E i \in 1..Len(s_prev) :
          c \in TouchedColumns(s_prev[i]) /\ ~FreshFor(s_prev[i], s_stats)
    /\ \A i \in 1..Len(s_prev) :
          c \in TouchedColumns(s_prev[i]) => TouchedColumns(s_prev[i]) \subseteq s_cols

\* C5 amended: when some entry touching column c is not fresh for the
\* non-empty S and every entry touching c has its columns within cols, an
\* (old, new) pair touching its new name alone, c is stale before
\* mark_fresh(log, cols, S) and not stale after it.
C5_RoundTrip ==
    s_pc = "requeried" =>
        \A c \in Cols : RoundTripCase(c) => c \in s_before /\ c \notin s_after

\* column "a" is touched by two entries, one of them half fresh, and is
\* stale before the marking and not after it
C5_Witness ==
    /\ s_pc = "requeried"
    /\ s_stats = {"s", "t"}
    /\ RoundTripCase("a")
    /\ Len(s_prev) = 2
    /\ \A i \in 1..2 : "a" \in TouchedColumns(s_prev[i])
    /\ s_prev[1].updated_stats = {"s"}
    /\ "a" \in s_before /\ "a" \notin s_after

\* the marking leaves length, names and columns alone and adds the stat
\* names to the entries that have columns, all of them within cols
MarkedAsClaimed(Columns(_)) ==
    /\ Len(s_log) = Len(s_prev)
    /\ \A i \in 1..Len(s_prev) :
          /\ s_log[i].name = s_prev[i].name
          /\ s_log[i].columns = s_prev[i].columns
          /\ s_log[i].updated_stats =
                IF Columns(s_prev[i]) # {} /\ Columns(s_prev[i]) \subseteq s_cols
                THEN s_prev[i].updated_stats \cup s_stats
                ELSE s_prev[i].updated_stats

\* C6 as stated: mark_fresh adds the stat names to exactly the entries whose
\* columns, as a set, are all within cols; nothing else changes.
C6_MarkSetOfColumns ==
    s_pc = "marked" => MarkedAsClaimed(AllColumns)

\* C6 amended: mark_fresh adds the stat names to exactly the entries whose
\* columns, of an (old, new) pair the new name alone, are all within cols;
\* every other entry keeps its fresh stats, and no name, columns, position
\* or the length of the log changes.
C6_MarkFresh ==
    s_pc = "marked" => MarkedAsClaimed(TouchedColumns)

\* an entry touching a column of cols and one outside it stays as it was
\* while an entry within cols is marked
C6_Witness ==
    /\ s_pc = "marked"
    /\ s_cols = {"b"}
    /\ s_stats = {"s", "t"}
    /\ Len(s_prev) = 2
    /\ s_prev[1].columns = [form |-> "list", names |-> <<"a", "b">>]
    /\ s_prev[2].columns = [form |-> "list", names |-> <<"b">>]
    /\ s_log[1].updated_stats = {}
    /\ s_log[2].updated_stats = {"s", "t"}

\* the entries of a log whose columns are an (old, new) pair
Pairs(log) == {i \in 1..Len(log) : log[i].columns.form = "tuple"}

\* the names a pair stands for in the matching: Names(old, new)
PairTreatedAs(Names(_, _)) ==
    /\ s_pc = "queried" =>
          \A i \in Pairs(s_log) :
              ~FreshFor(s_log[i], s_stats) =>
                  /\ Names(s_log[i].columns.names[1], s_log[i].columns.names[2])
                        \subseteq s_before
                  /\ (Len(s_log) = 1 =>
                        s_before = Names(s_log[i].columns.names[1],
                                         s_log[i].columns.names[2]))
    /\ s_pc = "marked" =>
          \A i \in Pairs(s_prev) :
              s_log[i].updated_stats =
                  IF Names(s_prev[i].columns.names[1], s_prev[i].columns.names[2])
                        \subseteq s_cols
                  THEN s_prev[i].updated_stats \cup s_stats
                  ELSE s_prev[i].updated_stats

BothNames(old, new) == {old, new}

NewName(old, new) == {new}

\* C24 as stated: an (old, new) pair is matched as the set {old, new}: the
\* query reports both names while the entry is not fresh, and the marking
\* marks the entry only when both names are within the columns given, as it
\* does for an entry whose columns are the list of the two names.
C24_PairIsBothNames == PairTreatedAs(BothNames)

\* C24 amended: an (old, new) pair is matched as its new name alone: the
\* query reports the new name while the entry is not fresh, and the old name
\* only when another entry reports it; the marking marks the entry exactly
\* when the new name is within the columns given, as it does for an entry
\* whose columns are the single name new.
C24_PairIsNewName == PairTreatedAs(NewName)

\* a log of one pair (a, b), not fresh: only b is reported, and the marking
\* of b alone marks the entry
C24_Witness ==
    /\ s_pc = "marked"
    /\ Len(s_prev) = 1
    /\ s_prev[1].columns = [form |-> "tuple", names |-> <<"a", "b">>]
    /\ s_prev[1].updated_stats = {}
    /\ s_stats = {"s"}
    /\ s_cols = {"b"}
    /\ s_before = {"b"}
    /\ s_log[1].updated_stats = {"s"}

\* the entries of a log that name no column: "columns" is None or empty
NoColumns(log) == \A i \in 1..Len(log) : Falsy(log[i].columns)

\* C23: the stale-column query raises nothing; on a meta without a log, on
\* an empty log and on a log whose entries name no column it returns the
\* empty set, whatever stat names are asked for.
C23_QueryNeverFails ==
    /\ s_pc # "raised"
    /\ (s_pc = "queried" /\ (s_absent \/ s_log = <<>> \/ NoColumns(s_log)))
          => s_before = {}

\* a query with stat names on a meta that has no log at all
C23_Witness ==
    /\ s_pc = "queried"
    /\ s_absent
    /\ s_stats = {"s", "t"}
    /\ s_before = {}

----------------------------------------------------------------------------
(* Claims on the dataframe and its cached quality *)

\* the columns some entry touches that is not fresh for the stat names
StaleFor(actions, stat_names) ==
    {c \in Cols : \E i \in 1..Len(actions) :
        c \in TouchedColumns(actions[i]) /\ ~FreshFor(actions[i], stat_names)}

NonEmptyStatSets == (SUBSET quality_props) \ {{}}

\* the log of the dataframe before and after a step
LogBefore == heap[root_meta].actions

LogAfter == heap'[root_meta'].actions

\* the step is a marking, by quality or by _set_transformed_stat itself,
\* whose columns cover the given ones
MarksCovering(columns) ==
    /\ op'.kind \in {"quality", "mark"}
    /\ columns \subseteq op'.cols

\* a step of the dataframe invalidates and keeps invalid, Columns(e) being
\* the columns an entry touches: the entry a transformation appends makes
\* each column it touches stale for every non-empty set of stat names,
\* whatever was marked before; and a column that an entry made stale for a
\* set of stat names is stale for it after the step as well, unless the step
\* is a marking whose columns cover the columns of that entry
InvalidatesUntilMarked(Columns(_)) ==
    /\ op'.kind = "transform" =>
          \A c \in Columns([columns |-> op'.columns]), S \in NonEmptyStatSets :
              c \in _transformed(LogAfter, S)
    /\ \A c \in Cols, S \in NonEmptyStatSets, i \in 1..Len(LogBefore) :
          ( /\ c \in Columns(LogBefore[i])
            /\ ~FreshFor(LogBefore[i], S)
            /\ c \notin _transformed(LogAfter, S) )
          => MarksCovering(Columns(LogBefore[i]))

\* C29 as stated: after any appends and markings, appending an entry that
\* touches column c, either name of an (old, new) pair included, makes c
\* stale for every non-empty set of stat names, and c stays stale until a
\* marking whose columns cover all columns of that entry; what was marked
\* before the append does not carry over.
C29_AppendInvalidates == [][InvalidatesUntilMarked(AllColumns)]_vars

\* C29 amended: the same, an (old, new) pair touching its new name alone:
\* appending an entry makes the columns it touches stale for every non-empty
\* set of stat names, and such a column stays stale until a marking whose
\* columns cover the columns that entry touches; what was marked before the
\* append does not carry over.
C29_AppendInvalidatesNewName == [][InvalidatesUntilMarked(TouchedColumns)]_vars

\* column a was fresh for the stats of quality, then a transformation wrote
\* it: a is stale again for each of them
C29_Witness ==
    /\ op.kind = "transform"
    /\ op.columns = [form |-> "str", names |-> <<"a">>]
    /\ Len(heap[root_meta].actions) = 2
    /\ "a" \in TouchedColumns(heap[held].actions[1])
    /\ heap[held].actions[1].updated_stats = quality_props
    /\ "a" \notin _transformed(heap[held].actions, quality_props)
    /\ \A S \in NonEmptyStatSets : "a" \in _transformed(heap[root_meta].actions, S)

----------------------------------------------------------------------------
(* Claims on the Meta object of optimus/meta.py *)

\* C2: after an append the log that was given has the entries it had before
\* the call, and the log returned is another value.
C2_AppendKeepsInput ==
    m_op = "append" =>
        /\ m_lists[m_in] = m_in_val
        /\ m_out # m_in

\* the log seen through a name bound to a dataframe
LogOf(lists, actions, handle, h) == lists[actions[handle[h]]]

\* C8: an append made through one of two dataframe values derived from a
\* common ancestor leaves the log of the other one as it was.
C8_OtherLogUnchanged ==
    [][ ( /\ m_count' = m_count + 1
          /\ m_op' = "append"
          /\ m_who' \in Derived )
        => \A k \in Derived \ {m_who', m_to'} :
              m_handle[k] # 0 =>
                  LogOf(m_lists', m_actions', m_handle', k)
                      = LogOf(m_lists, m_actions, m_handle, k) ]_vars

\* the stats an entry is marked with, as columns.py reads them:
\* action.get("updated_stats", [])
MarkedFresh(entry) ==
    IF "updated_stats" \in DOMAIN entry THEN entry.updated_stats ELSE {}

\* C22: the log an append returns is the entries the given log had, in their
\* order, followed by exactly one entry that carries the given action name
\* and columns and is marked with no stat.
C22_AppendAddsOneEntry ==
    m_op = "append" =>
        LET log == m_lists[m_out]
            n == Len(m_in_val)
        IN  /\ Len(log) = n + 1
            /\ SubSeq(log, 1, n) = m_in_val
            /\ log[n + 1].action = m_arg.name
            /\ log[n + 1].value = m_arg.value
            /\ MarkedFresh(log[n + 1]) = {}

C22_Witness ==
    /\ m_op = "append"
    /\ Len(m_in_val) = 2
    /\ m_in_val[1] # m_in_val[2]
    /\ MetaEntry(m_arg.name, m_arg.value) # m_in_val[1]
    /\ Len(m_lists[m_out]) = 3

----------------------------------------------------------------------------
(* Claims on the dataframes that transformations return *)

\* a transformation was called
Called == d_call \notin {"none", "idle"}

\* C27: a transformation leaves the action log of its receiver as it was
\* before the call, cols.keep, cols.set_data_type and cols.unset_data_type
\* included; the new entries are in the log of the value returned alone.
C27_ReceiverKeepsLog ==
    Called => d_meta[d_recv].actions = d_pre.actions

IsPrefix(p, q) == Len(p) <= Len(q) /\ SubSeq(q, 1, Len(p)) = p

----------------------------------------------------------------------------
(* Claims on the cached pattern counts *)

\* at the last call of calculate_pattern_counts the patterns had never been
\* computed
NeverComputed == ~p_call.patterns.set

\* at the last call the column's modified time was later than the
\* patterns' updated time
ModifiedLater ==
    /\ p_call.modified.set
    /\ p_call.patterns.set
    /\ p_call.modified.time > p_call.patterns.updated

\* the last call recomputed exactly when Must holds, and otherwise returned
\* the cached patterns and left them as they were
RecomputesExactlyWhen(Must) ==
    p_call.kind = "calculate" =>
        /\ p_call.recomputed <=> Must
        /\ ~p_call.recomputed =>
              /\ p_call.result = p_call.patterns
              /\ p_patterns = p_call.patterns

\* C30 as stated: calculate_pattern_counts recomputes when the column's
\* modified time is later than the patterns' updated time, when the
\* patterns were never computed, or when flush is true; otherwise it returns
\* the cached patterns without recomputing.
C30_ReusedWheneverValid ==
    RecomputesExactlyWhen(ModifiedLater \/ NeverComputed \/ p_call.flush)

\* C30 amended: calculate_pattern_counts recomputes when the column's
\* modified time is later than the patterns' updated time, when the
\* patterns were never computed, when flush is true, or when the cached
\* patterns are flagged as having more values than were kept; otherwise it
\* returns the cached patterns without recomputing.
C30_ReusedUnlessMore ==
    RecomputesExactlyWhen(ModifiedLater \/ NeverComputed \/ p_call.flush
                              \/ p_call.patterns.more)

\* a call without flush on patterns computed after the last change of the
\* column, which recomputes because they are flagged "more"
C30_Witness ==
    /\ p_call.kind = "calculate"
    /\ ~p_call.flush
    /\ p_call.patterns.set
    /\ p_call.patterns.more
    /\ p_call.modified.set
    /\ p_call.modified.time < p_call.patterns.updated
    /\ p_call.recomputed

====
